---------------------------- MODULE Spec2Model ----------------------------
(***************************************************************************)
(* FRANZ desktop agent (src/chuj.py, with the reduced variant src/main.py):*)
(* the cycle orchestrator main(), the overlay window HUD with its window   *)
(* thread, and the input synthesis calls the orchestrator dispatches to.   *)
(*                                                                         *)
(* Two threads of control are modelled, the orchestrator (main thread) and *)
(* the HUD window thread, plus the environment that may post messages to   *)
(* the window's queue.  One action is one statement (or one run of         *)
(* statements that touch no shared state) of the source.                   *)
(*                                                                         *)
(* Win32 calls are modelled by their documented behaviour:                 *)
(*  - PostMessageW appends to the owning thread's message queue and        *)
(*    returns at once;                                                     *)
(*  - GetMessageW blocks until a posted message is available, returns 0    *)
(*    for WM_QUIT, and delivers pending sent messages while it waits;      *)
(*  - SetWindowTextW on a window owned by ANOTHER thread sends WM_SETTEXT: *)
(*    the caller blocks until the owning thread retrieves messages and     *)
(*    its window procedure has handled the message; on the owning thread   *)
(*    it is a direct call;                                                 *)
(*  - a window is destroyed by the system when its owning thread exits     *)
(*    (the source never calls DestroyWindow);                              *)
(*  - DeleteObject on a bitmap that is selected into a DC takes effect     *)
(*    when the DC lets go of the bitmap, DeleteDC included.                *)
(*                                                                         *)
(* Spec follows the cycles with the image pipeline as three steps;         *)
(* ImageSpec follows the pipeline of one cycle (capture_screen,            *)
(* downsample, encode_png) statement by statement on small displays.       *)
(* InputSpec follows the dispatch of one action (arguments, coordinate     *)
(* mapping, SendInput calls) for a range of displays and argument values.  *)
(* Coordinates are integers; the one place where binary64 rounding changes *)
(* an integer result, the interpolation of mouse_drag, is computed with    *)
(* that rounding.                                                          *)
(* zlib.compress and zlib.crc32 are library functions: their results are   *)
(* kept symbolic, a stream that decompresses to its input and the CRC of a *)
(* given octet string.                                                     *)
(***************************************************************************)
EXTENDS Integers, Sequences, FiniteSets, TLC

\* ------------------------------------------------------------------ bounds
MaxCycles == 2      \* cycles the orchestrator loop is followed for
MaxText == 2        \* longest typed text, in UTF-16 code units
MaxEnv == 1         \* messages the environment posts to the window thread
MaxDim == 2         \* largest width and height of a display of any content
MaxUniform == 4     \* largest width and height of a display of one colour

\* ------------------------------------------------------- program constants
WHEEL_DELTA == 120  \* one wheel unit
DragSteps == 10     \* steps = 10 in mouse_drag

INITIAL_STORY == "initial"
Stories == {"s1", "s2"}          \* narratives the inference service returns
NoStory == "absent"              \* the response carries no "story" field
ScrollDeltas == {-360, 0, 240}   \* dy values the service returns

Variants == {"chuj", "main"}

\* Action names the dispatch chain of each variant compares against.
KnownTools(v) ==
  IF v = "chuj"
  THEN {"observe", "click", "right_click", "double_click", "drag", "type", "scroll"}
  ELSE {"observe", "click", "type", "scroll", "done"}

\* Names the inference service may return ("bogus" is in no catalogue).
ToolNames ==
  {"observe", "click", "right_click", "double_click", "drag", "type", "scroll",
   "done", "bogus"}

\* Normalized coordinates a response may carry: below the range, its ends,
\* inside it, above it.
NormCoords == {-50, 0, 11, 500, 1000, 1500}
DragRows == {0, 500, 1500}          \* y1, y2 of the drags that are followed

\* Code points a typed text is made of: "a", U+1F600 (outside the basic
\* plane) and U+D83D, a surrogate on its own (json.loads("\"\\ud83d\"")).
CodePoints == {97, 128512, 55357}

\* dy values a response may carry when the input synthesis is followed.
WheelDeltas == {-360, -200, -1, 0, 119, 120, 200, 240}

\* Coord(sw, sh) for the displays GetSystemMetrics may report; 0 is what it
\* returns when it fails.
Displays ==
  {[sw |-> 1000, sh |-> 800], [sw |-> 1536, sh |-> 864],
   [sw |-> 0, sh |-> 800], [sw |-> 0, sh |-> 0]}

Abs(x) == IF x < 0 THEN -x ELSE x
Max(a, b) == IF a >= b THEN a ELSE b

\* n copies of the sequence s, concatenated.
RECURSIVE Repeat(_, _)
Repeat(s, n) == IF n <= 0 THEN <<>> ELSE s \o Repeat(s, n - 1)

\* The sequences of bs, concatenated.
RECURSIVE Flatten(_)
Flatten(bs) == IF bs = <<>> THEN <<>> ELSE Head(bs) \o Flatten(Tail(bs))

Min(a, b) == IF a <= b THEN a ELSE b

\* The arguments of a response: "story", and the action's own arguments
\* (ok = FALSE: they are missing, args["x"] raises KeyError).
Arguments(s, ok, p, q, text, dy) ==
  [story |-> s, ok |-> ok, x |-> p[1], y |-> p[2], x1 |-> p[1], y1 |-> p[2],
   x2 |-> q[1], y2 |-> q[2], text |-> text, dy |-> dy]

\* The argument values a response may carry for a tool in the cycle model:
\* one point per pointer action; the KeyError case is followed for click
\* (the same happens for every listed action).
ArgsOf(t) ==
  IF t = "click"
  THEN {Arguments(NoStory, b, <<500, 500>>, <<0, 0>>, <<>>, 0) : b \in BOOLEAN}
  ELSE IF t \in {"right_click", "double_click"}
  THEN {Arguments(NoStory, TRUE, <<500, 500>>, <<0, 0>>, <<>>, 0)}
  ELSE IF t = "drag"
  THEN {Arguments(NoStory, TRUE, <<0, 0>>, <<11, 500>>, <<>>, 0)}
  ELSE IF t = "type"
  THEN {Arguments(NoStory, TRUE, <<0, 0>>, <<0, 0>>, Repeat(<<97>>, k), 0) :
          k \in 0..MaxText}
  ELSE IF t = "scroll"
  THEN {Arguments(NoStory, TRUE, <<0, 0>>, <<0, 0>>, <<>>, d) : d \in ScrollDeltas}
  ELSE {Arguments(NoStory, TRUE, <<0, 0>>, <<0, 0>>, <<>>, 0)}

\* Texts of at most n code points.
RECURSIVE Texts(_)
Texts(n) ==
  IF n = 0 THEN {<<>>}
  ELSE Texts(n - 1) \cup
       {Append(s, c) : s \in {u \in Texts(n - 1) : Len(u) = n - 1}, c \in CodePoints}

\* The argument values followed when the input synthesis is checked.
InputArgsOf(t) ==
  IF t \in {"click", "right_click", "double_click"}
  THEN {Arguments(NoStory, TRUE, <<px, py>>, <<0, 0>>, <<>>, 0) :
          px \in NormCoords, py \in NormCoords}
  ELSE IF t = "drag"
  THEN {Arguments(NoStory, TRUE, <<pa, ra>>, <<pb, rb>>, <<>>, 0) :
          pa \in NormCoords, pb \in NormCoords, ra \in DragRows, rb \in DragRows}
  ELSE IF t = "type"
  THEN {Arguments(NoStory, TRUE, <<0, 0>>, <<0, 0>>, s, 0) : s \in Texts(MaxText)}
  ELSE IF t = "scroll"
  THEN {Arguments(NoStory, TRUE, <<0, 0>>, <<0, 0>>, <<>>, d) : d \in WheelDeltas}
  ELSE {Arguments(NoStory, TRUE, <<0, 0>>, <<0, 0>>, <<>>, 0)}

\* ------------------------------------------------------ coordinate mapper
\* int(a / b) for b > 0: the quotient truncated toward zero.  (For integer
\* a and b in the ranges used here the binary64 quotient and the exact one
\* have the same integer part: a quotient that is not an integer is at
\* least 1/b away from one.)
Trunc(a, b) == IF a >= 0 THEN a \div b ELSE -((-a) \div b)

\* to_screen without the upper clamp.
to_screenUnclamped(x, y, c) ==
  <<Trunc(Max(0, x) * c.sw, 1000), Trunc(Max(0, y) * c.sh, 1000)>>

\* Coord.to_screen: int(max(0.0, min(1000.0, x)) * self.sw / 1000), per axis.
to_screen(x, y, c) ==
  <<Trunc(Max(0, Min(1000, x)) * c.sw, 1000), Trunc(Max(0, Min(1000, y)) * c.sh, 1000)>>

\* to_win32 that scales by 65536.
to_win32ScalesBy65536(x, y, c) ==
  <<IF c.sw > 0 THEN Trunc(x * 65536, c.sw) ELSE 0,
    IF c.sh > 0 THEN Trunc(y * 65536, c.sh) ELSE 0>>

\* Coord.to_win32: int(x * 65535 / self.sw) if self.sw > 0 else 0, per axis.
to_win32(x, y, c) ==
  <<IF c.sw > 0 THEN Trunc(x * 65535, c.sw) ELSE 0,
    IF c.sh > 0 THEN Trunc(y * 65535, c.sh) ELSE 0>>

\* ------------------------------------------------------- input synthesis
\* An INPUT structure holding a MOUSEINPUT; dwFlags is the set of its bits.
MouseInput(dx, dy, mouseData, dwFlags) ==
  [type |-> "INPUT_MOUSE", dx |-> dx, dy |-> dy, mouseData |-> mouseData,
   dwFlags |-> dwFlags]

\* An INPUT structure holding a KEYBDINPUT.
KeybdInput(wScan, dwFlags) ==
  [type |-> "INPUT_KEYBOARD", wVk |-> 0, wScan |-> wScan, dwFlags |-> dwFlags]

MoveTo(a) == MouseInput(a[1], a[2], 0, {"MOUSEEVENTF_MOVE", "MOUSEEVENTF_ABSOLUTE"})
LeftDown == MouseInput(0, 0, 0, {"MOUSEEVENTF_LEFTDOWN"})
LeftUp == MouseInput(0, 0, 0, {"MOUSEEVENTF_LEFTUP"})
RightDown == MouseInput(0, 0, 0, {"MOUSEEVENTF_RIGHTDOWN"})
RightUp == MouseInput(0, 0, 0, {"MOUSEEVENTF_RIGHTUP"})

\* Each gesture is the sequence of its send_input batches, in call order.
\* mouse_click that sends the move in a call of its own.
mouse_clickTwoBatches(x, y, c) ==
  << <<MoveTo(to_win32(x, y, c))>>, <<LeftDown, LeftUp>> >>

\* mouse_click that presses the secondary button.
mouse_clickSecondary(x, y, c) ==
  << <<MoveTo(to_win32(x, y, c)), RightDown, RightUp>> >>

mouse_click(x, y, c) ==
  << <<MoveTo(to_win32(x, y, c)), LeftDown, LeftUp>> >>

mouse_right_click(x, y, c) ==
  << <<MoveTo(to_win32(x, y, c)), RightDown, RightUp>> >>

\* mouse_double_click whose second batch moves again.
mouse_double_clickMovesTwice(x, y, c) ==
  << <<MoveTo(to_win32(x, y, c)), LeftDown, LeftUp>>,
     <<MoveTo(to_win32(x, y, c)), LeftDown, LeftUp>> >>

mouse_double_click(x, y, c) ==
  << <<MoveTo(to_win32(x, y, c)), LeftDown, LeftUp>>, <<LeftDown, LeftUp>> >>

\* floor(log2(n)) for n >= 1.
RECURSIVE Log2(_)
Log2(n) == IF n < 2 THEN 0 ELSE 1 + Log2(n \div 2)

\* t = i / steps in binary64: the double nearest to i/10 is
\* (i + r / 2^q) / 10 for these r and q (r = 0: i/10 is a double).
Tenth(i) ==
  CASE i = 1 -> [r |-> 1, q |-> 54]
    [] i = 2 -> [r |-> 1, q |-> 53]
    [] i = 3 -> [r |-> -1, q |-> 53]
    [] i = 4 -> [r |-> 1, q |-> 52]
    [] i = 6 -> [r |-> -1, q |-> 52]
    [] i = 7 -> [r |-> -1, q |-> 51]
    [] i = 8 -> [r |-> 1, q |-> 51]
    [] i = 9 -> [r |-> 1, q |-> 52]
    [] OTHER -> [r |-> 0, q |-> 0]

\* The interpolation in exact arithmetic: floor(a1 + (a2 - a1) * i / 10).
interpolateExact(a1, a2, i) == (a1 * 10 + (a2 - a1) * i) \div 10

\* int(ax1 + (ax2 - ax1) * t) with t = i / 10, computed in binary64 as the
\* source computes it, for 0 <= a1, a2 <= 65535.  Let d = a2 - a1 and
\* P = |d| * i / 10.  When P is not an integer the sum is at least 1/10 away
\* from an integer and no rounding changes its integer part.  When P is an
\* integer the product |d| * t differs from P by P * |r| / (i * 2^q), less
\* than the spacing of the doubles around P (2^(e - 52) above P, and below P
\* unless P = 2^e, where it is half that; e = floor(log2 P)): the product
\* rounds to the double next to P when the difference exceeds half the
\* spacing (k), and the sum a1 + d * t, which is then one spacing of P away
\* from the integer N = a1 + d * i / 10, rounds to N unless that distance
\* exceeds half the spacing of the doubles below N.  A sum below N
\* truncates to N - 1.
interpolate(a1, a2, i) ==
  LET d == a2 - a1
      N == interpolateExact(a1, a2, i)
      r == Tenth(i).r
      q == Tenth(i).q
      P == (Abs(d) * i) \div 10
      e == Log2(P)
      short == r < 0 /\ P = 2^e
      k == IF P * Abs(r) * 2^(54 - q) > i * 2^(IF short THEN e ELSE e + 1)
           THEN (IF r < 0 THEN -1 ELSE 1) ELSE 0
      ue == IF short THEN e - 1 ELSE e
      f == Log2(N)
      se == IF N = 2^f THEN f - 1 ELSE f
  IN IF (d * i) % 10 # 0 \/ r = 0 \/ d = 0 THEN N
     ELSE IF (IF d > 0 THEN k ELSE -k) >= 0 THEN N
     ELSE IF ue < se THEN N
     ELSE N - 1

\* The single-move batches of mouse_drag's loop, from step i on.
RECURSIVE drag_moves(_, _, _)
drag_moves(a1, a2, i) ==
  IF i > DragSteps THEN <<>>
  ELSE << <<MoveTo(<<interpolate(a1[1], a2[1], i), interpolate(a1[2], a2[2], i)>>)>> >>
       \o drag_moves(a1, a2, i + 1)

\* mouse_drag that releases the button before the interpolated moves.
mouse_dragReleasesEarly(x1, y1, x2, y2, c) ==
  LET a1 == to_win32(x1, y1, c)
      a2 == to_win32(x2, y2, c)
  IN << <<MoveTo(a1), LeftDown>>, <<LeftUp>> >> \o drag_moves(a1, a2, 1)

mouse_drag(x1, y1, x2, y2, c) ==
  LET a1 == to_win32(x1, y1, c)
      a2 == to_win32(x2, y2, c)
  IN << <<MoveTo(a1), LeftDown>> >> \o drag_moves(a1, a2, 1) \o << <<LeftUp>> >>

\* Whether text.encode("utf-16le") succeeds: a surrogate code point in a
\* str cannot be encoded (UnicodeEncodeError).
IsSurrogate(cp) == cp >= 55296 /\ cp <= 57343
Encodable(text) == \A j \in 1..Len(text) : ~IsSurrogate(text[j])

\* text.encode("utf-16le") read back two bytes at a time: the UTF-16 code
\* units of the text, a surrogate pair for a code point above U+FFFF.
RECURSIVE utf_16_le(_)
utf_16_le(text) ==
  IF text = <<>> THEN <<>>
  ELSE LET cp == Head(text)
       IN (IF cp > 65535
           THEN <<55296 + ((cp - 65536) \div 1024), 56320 + ((cp - 65536) % 1024)>>
           ELSE <<cp>>) \o utf_16_le(Tail(text))

\* The key-down and key-up of each code unit, in order.
RECURSIVE key_inputs(_)
key_inputs(units) ==
  IF units = <<>> THEN <<>>
  ELSE <<KeybdInput(Head(units), {"KEYEVENTF_UNICODE"}),
         KeybdInput(Head(units), {"KEYEVENTF_UNICODE", "KEYEVENTF_KEYUP"})>>
       \o key_inputs(Tail(units))

\* type_text: nothing is sent for an empty text.
type_text(text) ==
  IF text = <<>> THEN <<>> ELSE << key_inputs(utf_16_le(text)) >>

\* scroll without the minimum of one tick.
scrollNoMinimum(dy) ==
  LET ticks == Abs(dy) \div WHEEL_DELTA
      direction == IF dy > 0 THEN 1 ELSE -1
  IN << Repeat(<<MouseInput(0, 0, WHEEL_DELTA * direction, {"MOUSEEVENTF_WHEEL"})>>,
               ticks) >>

\* scroll: ticks = max(1, int(abs(dy) / WHEEL_DELTA)),
\* direction = 1 if dy > 0 else -1, one batch.
scroll(dy) ==
  LET ticks == Max(1, Abs(dy) \div WHEEL_DELTA)
      direction == IF dy > 0 THEN 1 ELSE -1
  IN << Repeat(<<MouseInput(0, 0, WHEEL_DELTA * direction, {"MOUSEEVENTF_WHEEL"})>>,
               ticks) >>

\* The points conv.to_screen returns in the branch of an action.
ScreenPoints(v, t, a, c) ==
  IF t \notin KnownTools(v) THEN <<>>
  ELSE IF t \in {"click", "right_click", "double_click"}
  THEN <<to_screen(a.x, a.y, c)>>
  ELSE IF t = "drag" THEN <<to_screen(a.x1, a.y1, c), to_screen(a.x2, a.y2, c)>>
  ELSE <<>>

\* A dispatch chain whose final else runs a click for any other name.
GestureOfDefaultClick(v, t, a, c) ==
  LET s == to_screen(a.x, a.y, c)
      s1 == to_screen(a.x1, a.y1, c)
      s2 == to_screen(a.x2, a.y2, c)
  IN IF t \notin KnownTools(v) THEN mouse_click(s[1], s[2], c)
     ELSE IF t = "click" THEN mouse_click(s[1], s[2], c)
     ELSE IF t = "right_click" THEN mouse_right_click(s[1], s[2], c)
     ELSE IF t = "double_click" THEN mouse_double_click(s[1], s[2], c)
     ELSE IF t = "drag" THEN mouse_drag(s1[1], s1[2], s2[1], s2[2], c)
     ELSE IF t = "type" THEN type_text(a.text)
     ELSE IF t = "scroll" THEN scroll(a.dy)
     ELSE <<>>

\* The if/elif chain of main(): the batches the selected action will send.
\* A name the chain does not list sends nothing.
GestureOf(v, t, a, c) ==
  LET s == to_screen(a.x, a.y, c)
      s1 == to_screen(a.x1, a.y1, c)
      s2 == to_screen(a.x2, a.y2, c)
  IN IF t \notin KnownTools(v) THEN <<>>
     ELSE IF t = "click" THEN mouse_click(s[1], s[2], c)
     ELSE IF t = "right_click" THEN mouse_right_click(s[1], s[2], c)
     ELSE IF t = "double_click" THEN mouse_double_click(s[1], s[2], c)
     ELSE IF t = "drag" THEN mouse_drag(s1[1], s1[2], s2[1], s2[2], c)
     ELSE IF t = "type" THEN type_text(a.text)
     ELSE IF t = "scroll" THEN scroll(a.dy)
     ELSE <<>>

\* ------------------------------------------------------------------ state
VARIABLES
  variant,        \* which source file runs: "chuj" or "main"
  opc,            \* orchestrator: position in main() / HUD.__enter__ / __exit__
  step,           \* main(): step
  current_story,  \* main(): current_story, the authoritative narrative
  tool,           \* main(): tool returned by call_vlm
  args,           \* main(): args returned by call_vlm (see Arguments)
  story,          \* main(): story = args.get("story", current_story)
  conv,           \* main(): conv = Coord(sw=sw, sh=sh)
  spts,           \* main(): the points conv.to_screen returned in this cycle
  batches,        \* SendInput batches the running gesture has still to send
  events,         \* input events injected in the current cycle
  calls,          \* cInputs of each SendInput call of the current cycle
  stages,         \* stages the current cycle has executed, in order
  failure,        \* error caught in the current cycle ("none" if none)
  exitReason,     \* why the loop was left ("none" while it runs)
  storyAtStart,   \* current_story when the current cycle began
  textAtStart,    \* winText when the current cycle began
  readyAtStart,   \* ready_event when the current cycle began
  hwnd,           \* HUD.hwnd: "NULL" or the handle
  ready_event,    \* HUD.ready_event
  stop_event,     \* HUD.stop_event
  wpc,            \* window thread: position in HUD._window_thread
  winState,       \* the OS window: "none", "live", "destroyed"
  winText,        \* the text the window displays
  msgq,           \* posted messages waiting in the window thread's queue
  sent,           \* pending cross-thread WM_SETTEXT: <<>> or <<[text, ready]>>
  applied,        \* the last update applied to the window: <<>> or <<record>>
  shutdownLog,    \* steps HUD.__exit__ has performed, and later handle uses
  envCount        \* messages the environment has posted

\* The image pipeline of one cycle, followed statement by statement when it
\* is run on its own (ImageSpec); the cycle model above runs it as the three
\* steps Capture, Downsample, Encode.
VARIABLES
  ipc,            \* position in capture_screen / downsample / encode_png
  scrW,           \* main(): sw, the display's width
  scrH,           \* main(): sh, the display's height
  outW,           \* SCREEN_W, the width handed to downsample and encode_png
  outH,           \* SCREEN_H
  display,        \* the pixels on the display, B,G,R,A, top-down rows
  gdi,            \* the GDI objects of capture_screen: sdc, mdc, hbm
  done,           \* the calls of capture_screen that have succeeded, in order
  bgra,           \* main(): bgra, the buffer capture_screen returned
  reads,          \* source pixels (sx, sy) downsample has read
  down,           \* main(): down
  png             \* main(): png

imgVars ==
  <<ipc, scrW, scrH, outW, outH, display, gdi, done, bgra, reads, down, png>>

cycleVars ==
  <<variant, conv, spts, calls, opc, step, current_story, tool, args, story, batches,
    events,
    stages, failure, exitReason, storyAtStart, textAtStart, readyAtStart,
    hwnd, ready_event, stop_event, wpc, winState, winText, msgq, sent,
    applied, shutdownLog, envCount>>

vars == <<cycleVars, imgVars>>

orchVars ==
  <<step, current_story, tool, args, story, batches, events, stages, failure,
    exitReason, storyAtStart, textAtStart, readyAtStart>>

hudVars == <<hwnd, ready_event, stop_event, wpc, winState, winText, msgq, sent,
             applied, envCount>>

NoArgs == Arguments(NoStory, TRUE, <<0, 0>>, <<0, 0>>, <<>>, 0)

\* The state after construction of the orchestrator and the HUD object.
CycleInit ==
  /\ variant \in Variants
  /\ conv = [sw |-> 1000, sh |-> 800]
  /\ spts = <<>>
  /\ calls = <<>>
  /\ opc = "enter"
  /\ step = 0
  /\ current_story = INITIAL_STORY
  /\ tool = "none"
  /\ args = NoArgs
  /\ story = INITIAL_STORY
  /\ batches = <<>>
  /\ events = <<>>
  /\ stages = <<>>
  /\ failure = "none"
  /\ exitReason = "none"
  /\ storyAtStart = INITIAL_STORY
  /\ textAtStart = ""
  /\ readyAtStart = FALSE
  /\ hwnd = "NULL"
  /\ ready_event = FALSE
  /\ stop_event = FALSE
  /\ wpc = "unstarted"
  /\ winState = "none"
  /\ winText = ""
  /\ msgq = <<>>
  /\ sent = <<>>
  /\ applied = <<>>
  /\ shutdownLog = <<>>
  /\ envCount = 0

NoGdi == [sdc |-> "none", mdc |-> "none", hbm |-> "none", freed |-> <<>>,
          bad |-> 0]

\* The image pipeline is not followed statement by statement.
ImageIdle ==
  /\ ipc = "idle"
  /\ scrW = 0 /\ scrH = 0 /\ outW = 0 /\ outH = 0
  /\ display = <<>>
  /\ gdi = NoGdi
  /\ done = <<>>
  /\ bgra = <<>>
  /\ reads = {}
  /\ down = <<>>
  /\ png = <<>>

Init == CycleInit /\ ImageIdle

\* ------------------------------------------------------ orchestrator thread
\* HUD.__enter__, up to thread.start(): both events are cleared and the
\* window thread begins to run.
Enter ==
  /\ opc = "enter"
  /\ ready_event' = FALSE
  /\ stop_event' = FALSE
  /\ wpc' = "create"
  /\ opc' = "enter_wait"
  /\ UNCHANGED <<imgVars, calls, conv, spts, variant,
                 orchVars, hwnd, winState, winText, msgq, sent,
                 applied, envCount, shutdownLog>>

\* A wait without a timeout: it returns only once the event is set.
EnterWaitUnbounded == ready_event

\* ready_event.wait(timeout=2.0) returns when the event is set or when the
\* timeout expires, whichever comes first: it can return in every state.
EnterWaitGuard == TRUE

\* HUD.__enter__ from the bounded wait to its return, then main() up to the
\* loop: step = 0, current_story = INITIAL_STORY.
EnterReturn ==
  /\ opc = "enter_wait"
  /\ EnterWaitGuard
  /\ step' = 0
  /\ current_story' = INITIAL_STORY
  /\ opc' = "loop"
  /\ UNCHANGED <<imgVars, calls, conv, spts, variant,
                 tool, args, story, batches, events, stages, failure,
                 exitReason, storyAtStart, textAtStart, readyAtStart, hudVars,
                 shutdownLog>>

\* while True: step += 1.  A new cycle begins.
CycleStart ==
  /\ opc = "loop"
  /\ step < MaxCycles
  /\ step' = step + 1
  /\ stages' = <<>>
  /\ events' = <<>>
  /\ batches' = <<>>
  /\ failure' = "none"
  /\ tool' = "none"
  /\ args' = NoArgs
  /\ story' = current_story
  /\ storyAtStart' = current_story
  /\ textAtStart' = winText
  /\ readyAtStart' = ready_event
  /\ spts' = <<>>
  /\ calls' = <<>>
  /\ opc' = "capture"
  /\ UNCHANGED <<imgVars, conv, variant, current_story, exitReason, hudVars,
                 shutdownLog>>

\* The loop and the with block are left, by an exception raised outside the
\* try block, by KeyboardInterrupt or (main.py) by break: HUD.__exit__ runs
\* and main() ends.
Escape(reason) ==
  /\ exitReason' = reason
  /\ opc' = "exit_post"

\* An exception raised inside the try block: except Exception, print, then
\* time.sleep(2.0).
Caught(kind) ==
  /\ failure' = kind
  /\ opc' = "backoff"

\* bgra = capture_screen(sw, sh): returns a buffer or raises.
Capture ==
  /\ opc = "capture"
  /\ stages' = Append(stages, "capture")
  /\ \/ opc' = "downsample" /\ UNCHANGED exitReason
     \/ Escape("capture_error")
  /\ UNCHANGED <<imgVars, calls, conv, spts, variant,
                 step, current_story, tool, args, story, batches,
                 events, failure, storyAtStart, textAtStart, readyAtStart,
                 hudVars, shutdownLog>>

\* down = downsample(...)
Downsample ==
  /\ opc = "downsample"
  /\ stages' = Append(stages, "downsample")
  /\ opc' = "encode"
  /\ UNCHANGED <<imgVars, calls, conv, spts, variant,
                 step, current_story, tool, args, story, batches,
                 events, failure, exitReason, storyAtStart, textAtStart,
                 readyAtStart, hudVars, shutdownLog>>

\* png = encode_png(...)
Encode ==
  /\ opc = "encode"
  /\ stages' = Append(stages, "encode")
  /\ opc' = "dump"
  /\ UNCHANGED <<imgVars, calls, conv, spts, variant,
                 step, current_story, tool, args, story, batches,
                 events, failure, exitReason, storyAtStart, textAtStart,
                 readyAtStart, hudVars, shutdownLog>>

\* (dump_dir / ...).write_bytes(png): the frame hand-off; an OSError is
\* raised outside the try block.
Dump ==
  /\ opc = "dump"
  /\ stages' = Append(stages, "dump")
  /\ \/ opc' = "infer" /\ UNCHANGED exitReason
     \/ Escape("dump_error")
  /\ UNCHANGED <<imgVars, calls, conv, spts, variant,
                 step, current_story, tool, args, story, batches,
                 events, failure, storyAtStart, textAtStart, readyAtStart,
                 hudVars, shutdownLog>>

\* Infer with an error path that also resets the narrative.
InferResetsNarrative ==
  /\ opc = "infer"
  /\ stages' = Append(stages, "infer")
  /\ \/ /\ Caught("inference")
        /\ current_story' = INITIAL_STORY
        /\ UNCHANGED <<tool, args>>
     \/ /\ \E t \in ToolNames, s \in Stories \cup {NoStory} :
             \E a \in ArgsOf(t) :
               /\ tool' = t
               /\ args' = [a EXCEPT !.story = s]
        /\ opc' = "read"
        /\ UNCHANGED <<failure, current_story>>
  /\ UNCHANGED <<imgVars, calls, conv, spts, variant,
                 step, story, batches, events, exitReason,
                 storyAtStart, textAtStart, readyAtStart, hudVars, shutdownLog>>

\* tool, args = call_vlm(png): one request; it returns one action name with
\* its arguments, or raises (network, protocol or schema failure).
Infer ==
  /\ opc = "infer"
  /\ stages' = Append(stages, "infer")
  /\ \/ /\ Caught("inference")
        /\ UNCHANGED <<tool, args>>
     \/ /\ \E t \in ToolNames, s \in Stories \cup {NoStory} :
             \E a \in ArgsOf(t) :
               /\ tool' = t
               /\ args' = [a EXCEPT !.story = s]
        /\ opc' = "read"
        /\ UNCHANGED failure
  /\ UNCHANGED <<imgVars, calls, conv, spts, variant,
                 step, current_story, story, batches, events,
                 exitReason, storyAtStart, textAtStart, readyAtStart, hudVars,
                 shutdownLog>>

\* Whether the loop is left on this action name (main.py: tool == "done").
BreaksLoop(v, t) == v = "main" /\ t = "done"

\* ReadNarrative that stores the narrative before it tests for "done".
ReadNarrativeStoresBeforeBreak ==
  /\ opc = "read"
  /\ stages' = Append(stages, "read")
  /\ story' = IF args.story = NoStory THEN current_story ELSE args.story
  /\ current_story' = story'
  /\ IF BreaksLoop(variant, tool)
     THEN Escape("done")
     ELSE /\ opc' = "update"
          /\ UNCHANGED exitReason
  /\ UNCHANGED <<imgVars, calls, conv, spts, variant,
                 step, tool, args, batches, events, failure,
                 storyAtStart, textAtStart, readyAtStart, hudVars, shutdownLog>>

\* ReadNarrative that goes on to the dispatch without the overlay update.
ReadNarrativeSkipsUpdate ==
  /\ opc = "read"
  /\ stages' = Append(stages, "read")
  /\ story' = IF args.story = NoStory THEN current_story ELSE args.story
  /\ IF BreaksLoop(variant, tool)
     THEN /\ Escape("done")
          /\ UNCHANGED current_story
     ELSE /\ current_story' = story'
          /\ opc' = "dispatch"
          /\ UNCHANGED exitReason
  /\ UNCHANGED <<imgVars, calls, conv, spts, variant,
                 step, tool, args, batches, events, failure,
                 storyAtStart, textAtStart, readyAtStart, hudVars, shutdownLog>>

\* ReadNarrative whose fallback for a missing "story" is the initial story.
ReadNarrativeDefaultsInitial ==
  /\ opc = "read"
  /\ stages' = Append(stages, "read")
  /\ story' = IF args.story = NoStory THEN INITIAL_STORY ELSE args.story
  /\ IF BreaksLoop(variant, tool)
     THEN /\ Escape("done")
          /\ UNCHANGED current_story
     ELSE /\ current_story' = story'
          /\ opc' = "update"
          /\ UNCHANGED exitReason
  /\ UNCHANGED <<imgVars, calls, conv, spts, variant,
                 step, tool, args, batches, events, failure,
                 storyAtStart, textAtStart, readyAtStart, hudVars, shutdownLog>>

\* ReadNarrative that appends the returned narrative to the one it holds.
ReadNarrativeAppends ==
  /\ opc = "read"
  /\ stages' = Append(stages, "read")
  /\ story' = IF args.story = NoStory THEN current_story ELSE args.story
  /\ IF BreaksLoop(variant, tool)
     THEN /\ Escape("done")
          /\ UNCHANGED current_story
     ELSE /\ current_story' = IF args.story = NoStory THEN current_story
                              ELSE current_story \o args.story
          /\ opc' = "update"
          /\ UNCHANGED exitReason
  /\ UNCHANGED <<imgVars, calls, conv, spts, variant,
                 step, tool, args, batches, events, failure,
                 storyAtStart, textAtStart, readyAtStart, hudVars, shutdownLog>>

\* story = args.get("story", current_story); [main.py: break on "done";]
\* current_story = story.
ReadNarrative ==
  /\ opc = "read"
  /\ stages' = Append(stages, "read")
  /\ story' = IF args.story = NoStory THEN current_story ELSE args.story
  /\ IF BreaksLoop(variant, tool)
     THEN /\ Escape("done")
          /\ UNCHANGED current_story
     ELSE /\ current_story' = story'
          /\ opc' = "update"
          /\ UNCHANGED exitReason
  /\ UNCHANGED <<imgVars, calls, conv, spts, variant,
                 step, tool, args, batches, events, failure,
                 storyAtStart, textAtStart, readyAtStart, hudVars, shutdownLog>>

\* hud.update(story): if self.hwnd: SetWindowTextW(self.hwnd, story) and
\* SetWindowPos.  The handle belongs to the window thread, so the text is
\* set by a message sent to that thread and the call waits for it; on a
\* destroyed window the call fails and its result is ignored.
UpdateCall ==
  /\ opc = "update"
  /\ stages' = Append(stages, "update")
  /\ IF hwnd = "NULL" \/ winState # "live"
     THEN /\ opc' = "dispatch"
          /\ UNCHANGED sent
     ELSE /\ sent' = <<[text |-> story, ready |-> ready_event]>>
          /\ opc' = "update_wait"
  /\ shutdownLog' = IF hwnd # "NULL" /\ shutdownLog # <<>>
                    THEN Append(shutdownLog, "update") ELSE shutdownLog
  /\ UNCHANGED <<imgVars, calls, conv, spts, variant,
                 step, current_story, tool, args, story, batches,
                 events, failure, exitReason, storyAtStart, textAtStart,
                 readyAtStart, hwnd, ready_event, stop_event, wpc, winState,
                 winText, msgq, applied, envCount>>

\* SetWindowTextW returns once the window thread has handled the message;
\* then time.sleep(0.2).
UpdateReturn ==
  /\ opc = "update_wait"
  /\ sent = <<>>
  /\ opc' = "dispatch"
  /\ UNCHANGED <<imgVars, calls, conv, spts, variant,
                 orchVars, hudVars, shutdownLog>>

\* The if/elif chain on tool.  A listed action reads its arguments first
\* (KeyError when one is missing), maps its points with conv.to_screen, then
\* runs its gesture (type_text raises UnicodeEncodeError before it sends
\* anything when the text cannot be encoded); a name that is not listed
\* falls through the chain.
Dispatch ==
  /\ opc = "dispatch"
  /\ stages' = Append(stages, "dispatch")
  /\ IF tool \in KnownTools(variant) /\ ~args.ok
     THEN /\ Caught("arguments")
          /\ UNCHANGED <<batches, spts>>
     ELSE IF tool \in KnownTools(variant) /\ tool = "type" /\ ~Encodable(args.text)
     THEN /\ Caught("encoding")
          /\ UNCHANGED <<batches, spts>>
     ELSE /\ spts' = ScreenPoints(variant, tool, args, conv)
          /\ batches' = GestureOf(variant, tool, args, conv)
          /\ opc' = IF batches' # <<>> THEN "inject"
                    ELSE IF tool \in KnownTools(variant) THEN "settle"
                    ELSE "loop"
          /\ UNCHANGED failure
  /\ UNCHANGED <<imgVars, calls, conv, variant, step, current_story, tool, args, story,
                 events, exitReason, storyAtStart, textAtStart, readyAtStart,
                 hudVars, shutdownLog>>

\* send_input that does not compare SendInput's result with len(inputs).
InjectIgnoresShortfall ==
  /\ opc = "inject"
  /\ batches # <<>>
  /\ \E k \in 0..Len(Head(batches)) :
       /\ events' = events \o SubSeq(Head(batches), 1, k)
       /\ calls' = Append(calls, Len(Head(batches)))
       /\ batches' = Tail(batches)
       /\ opc' = IF batches' = <<>> THEN "settle" ELSE "inject"
       /\ UNCHANGED failure
  /\ UNCHANGED <<imgVars, conv, spts, variant, step, current_story, tool, args,
                 story, stages, exitReason, storyAtStart, textAtStart,
                 readyAtStart, hudVars, shutdownLog>>

\* send_input(inputs): SendInput injects k of the events; k other than
\* len(inputs) raises, which ends the gesture.
Inject ==
  /\ opc = "inject"
  /\ batches # <<>>
  /\ \E k \in 0..Len(Head(batches)) :
       /\ events' = events \o SubSeq(Head(batches), 1, k)
       /\ calls' = Append(calls, Len(Head(batches)))
       /\ IF k = Len(Head(batches))
          THEN /\ batches' = Tail(batches)
               /\ opc' = IF batches' = <<>> THEN "settle" ELSE "inject"
               /\ UNCHANGED failure
          ELSE /\ batches' = <<>>
               /\ Caught("injection")
  /\ UNCHANGED <<imgVars, conv, spts, variant, step, current_story, tool, args,
                 story, stages,
                 exitReason, storyAtStart, textAtStart, readyAtStart, hudVars,
                 shutdownLog>>

\* The time.sleep that ends a listed action's branch.
Settle ==
  /\ opc = "settle"
  /\ stages' = Append(stages, "settle")
  /\ opc' = "loop"
  /\ UNCHANGED <<imgVars, calls, conv, spts, variant,
                 step, current_story, tool, args, story, batches,
                 events, failure, exitReason, storyAtStart, textAtStart,
                 readyAtStart, hudVars, shutdownLog>>

\* except Exception: print, time.sleep(2.0); the loop goes on.
Backoff ==
  /\ opc = "backoff"
  /\ opc' = "loop"
  /\ UNCHANGED <<imgVars, calls, conv, spts, variant,
                 orchVars, hudVars, shutdownLog>>

\* KeyboardInterrupt (not an Exception): raised in the main thread at the
\* top of a cycle or while it waits inside the inference request.
Interrupt ==
  /\ opc \in {"capture", "infer"}
  /\ Escape("interrupt")
  /\ UNCHANGED <<imgVars, calls, conv, spts, variant,
                 step, current_story, tool, args, story, batches,
                 events, stages, failure, storyAtStart, textAtStart,
                 readyAtStart, hudVars, shutdownLog>>

\* ExitPost with the stop signal set before the destroy request is posted.
ExitPostAfterStop ==
  /\ opc = "exit_post"
  /\ stop_event' = TRUE
  /\ IF hwnd # "NULL"
     THEN /\ msgq' = IF winState = "live" THEN Append(msgq, "WM_DESTROY") ELSE msgq
          /\ shutdownLog' = shutdownLog \o <<"stop", "post">>
     ELSE /\ shutdownLog' = Append(shutdownLog, "stop")
          /\ UNCHANGED msgq
  /\ opc' = "exit_join"
  /\ UNCHANGED <<imgVars, calls, conv, spts, variant,
                 orchVars, hwnd, ready_event, wpc, winState, winText,
                 sent, applied, envCount>>

\* HUD.__exit__: if self.hwnd: PostMessageW(self.hwnd, WM_DESTROY, 0, 0).
\* Posting to a destroyed window fails; the result is ignored.
ExitPost ==
  /\ opc = "exit_post"
  /\ IF hwnd # "NULL"
     THEN /\ msgq' = IF winState = "live" THEN Append(msgq, "WM_DESTROY") ELSE msgq
          /\ shutdownLog' = Append(shutdownLog, "post")
     ELSE UNCHANGED <<msgq, shutdownLog>>
  /\ opc' = "exit_stop"
  /\ UNCHANGED <<imgVars, calls, conv, spts, variant,
                 orchVars, hwnd, ready_event, stop_event, wpc,
                 winState, winText, sent, applied, envCount>>

\* HUD.__exit__: self.stop_event.set()
ExitStop ==
  /\ opc = "exit_stop"
  /\ stop_event' = TRUE
  /\ shutdownLog' = Append(shutdownLog, "stop")
  /\ opc' = "exit_join"
  /\ UNCHANGED <<imgVars, calls, conv, spts, variant,
                 orchVars, hwnd, ready_event, wpc, winState, winText,
                 msgq, sent, applied, envCount>>

\* A join without a timeout: it returns only once the thread has ended.
JoinUnbounded == wpc = "terminated"

\* thread.join(timeout=1.0) returns when the thread has ended or when the
\* timeout expires, whichever comes first: it can return in every state.
JoinGuard == TRUE

\* HUD.__exit__: self.thread.join(timeout=1.0); the with block is left.
ExitJoin ==
  /\ opc = "exit_join"
  /\ JoinGuard
  /\ shutdownLog' = Append(shutdownLog, "join")
  /\ opc' = "exited"
  /\ UNCHANGED <<imgVars, calls, conv, spts, variant,
                 orchVars, hudVars>>

\* ----------------------------------------------------------- window thread
\* self.hwnd = CreateWindowExW(..., "", ...); if not self.hwnd:
\* self.ready_event.set(); return.
WCreate ==
  /\ wpc = "create"
  /\ \/ /\ hwnd' = "HWND"
        /\ winState' = "live"
        /\ winText' = ""
        /\ wpc' = "init"
        /\ UNCHANGED ready_event
     \/ /\ hwnd' = "NULL"
        /\ ready_event' = TRUE
        /\ wpc' = "terminated"
        /\ UNCHANGED <<winState, winText>>
  /\ UNCHANGED <<imgVars, calls, conv, spts, variant,
                 opc, orchVars, stop_event, msgq, sent, applied,
                 envCount, shutdownLog>>

\* Font, background colour, SetWindowTextW(self.hwnd, INITIAL_STORY),
\* ShowWindow, SetWindowPos: direct calls on the owning thread, which
\* retrieves no message meanwhile; then self.ready_event.set().
WInit ==
  /\ wpc = "init"
  /\ winText' = INITIAL_STORY
  /\ ready_event' = TRUE
  /\ wpc' = "loop_test"
  /\ UNCHANGED <<imgVars, calls, conv, spts, variant,
                 opc, orchVars, hwnd, stop_event, winState, msgq,
                 sent, applied, envCount, shutdownLog>>

\* The thread function returns: the thread ends and the system destroys the
\* window it owns together with its message queue.  A sender still waiting
\* on the window is released.
ThreadEnds ==
  /\ wpc' = "terminated"
  /\ winState' = "destroyed"
  /\ msgq' = <<>>
  /\ sent' = <<>>

\* while not self.stop_event.is_set():
WLoopTest ==
  /\ wpc = "loop_test"
  /\ IF stop_event
     THEN ThreadEnds
     ELSE /\ wpc' = "getmsg"
          /\ UNCHANGED <<winState, msgq, sent>>
  /\ UNCHANGED <<imgVars, calls, conv, spts, variant,
                 opc, orchVars, hwnd, ready_event, stop_event,
                 winText, applied, envCount, shutdownLog>>

\* A window thread that handles a sent message inside the calls of its
\* initialisation too.
WReceiveSentDuringInit ==
  /\ wpc \in {"init", "getmsg"}
  /\ sent # <<>>
  /\ winText' = sent[1].text
  /\ applied' = <<[issuedReady |-> sent[1].ready, ready |-> ready_event,
                   stop |-> stop_event]>>
  /\ sent' = <<>>
  /\ UNCHANGED <<imgVars, calls, conv, spts, variant,
                 opc, orchVars, hwnd, ready_event, stop_event, wpc,
                 winState, msgq, envCount, shutdownLog>>

\* Inside GetMessageW: a message sent from another thread is handled by the
\* window procedure without GetMessageW returning.  WM_SETTEXT replaces the
\* window's text.
WReceiveSent ==
  /\ wpc = "getmsg"
  /\ sent # <<>>
  /\ winText' = sent[1].text
  /\ applied' = <<[issuedReady |-> sent[1].ready, ready |-> ready_event,
                   stop |-> stop_event]>>
  /\ sent' = <<>>
  /\ UNCHANGED <<imgVars, calls, conv, spts, variant,
                 opc, orchVars, hwnd, ready_event, stop_event, wpc,
                 winState, msgq, envCount, shutdownLog>>

\* ret = GetMessageW(...): returns the next posted message; if ret == 0 or
\* ret == -1: break; else TranslateMessage, DispatchMessageW.  A posted
\* WM_DESTROY is dispatched like any other message.
WGetMessage ==
  /\ wpc = "getmsg"
  /\ sent = <<>>
  /\ msgq # <<>>
  /\ IF Head(msgq) = "WM_QUIT"
     THEN ThreadEnds
     ELSE /\ msgq' = Tail(msgq)
          /\ wpc' = "loop_test"
          /\ UNCHANGED <<winState, sent>>
  /\ UNCHANGED <<imgVars, calls, conv, spts, variant,
                 opc, orchVars, hwnd, ready_event, stop_event,
                 winText, applied, envCount, shutdownLog>>

\* ------------------------------------------------------------- environment
\* The system or another program posts a message to the window thread: a
\* paint or input message, or WM_QUIT.
EnvPost ==
  /\ winState = "live"
  /\ envCount < MaxEnv
  /\ envCount' = envCount + 1
  /\ \E m \in {"WM_PAINT", "WM_QUIT"} : msgq' = Append(msgq, m)
  /\ UNCHANGED <<imgVars, calls, conv, spts, variant,
                 opc, orchVars, hwnd, ready_event, stop_event, wpc,
                 winState, winText, sent, applied, shutdownLog>>

\* ----------------------------------------------------------- image pipeline
\* Pixels the display may show, as B,G,R,A bytes; the first one is red.
Red == <<0, 0, 255, 255>>
Pixels == {Red, <<10, 20, 30, 40>>}

\* The buffers of w x h pixels, each a flat sequence of w*h*4 bytes.
Buffers(w, h) == {Flatten(f) : f \in [1..(w * h) -> Pixels]}

\* The w x h buffer whose every pixel is p.
Uniform(p, w, h) == Flatten([i \in 1..(w * h) |-> p])

\* Python's s[a:b] on a sequence of bytes (0 <= a): clipped to the length.
Slice(s, a, b) == SubSeq(s, a + 1, Min(b, Len(s)))

\* Python's s[a:b] = v on a bytearray: the slice is replaced by v, whatever
\* the length of v.
SliceAssign(s, a, b, v) ==
  Slice(s, 0, Min(a, Len(s))) \o v \o Slice(s, Max(a, b), Len(s))

\* bytearray(n): n zero bytes.
Zeros(n) == [i \in 1..n |-> 0]

\* GDI calls of capture_screen, as functions of the state g of its objects.
\* freed lists the objects the system has freed; bad counts release calls on
\* a handle that was never acquired or is already freed.
\* ReleaseDC(0, sdc)
ReleaseDC(g) ==
  IF g.sdc = "held"
  THEN [g EXCEPT !.sdc = "released", !.freed = Append(@, "sdc")]
  ELSE [g EXCEPT !.bad = @ + 1]

\* DeleteDC(mdc): the DC is freed and lets go of the bitmap selected into
\* it; a bitmap whose deletion was pending is freed with it.
DeleteDC(g) ==
  IF g.mdc = "held"
  THEN [g EXCEPT !.mdc = "released",
                 !.hbm = IF @ = "selected" THEN "held"
                         ELSE IF @ = "pending" THEN "released" ELSE @,
                 !.freed = IF g.hbm = "pending" THEN @ \o <<"mdc", "hbm">>
                           ELSE Append(@, "mdc")]
  ELSE [g EXCEPT !.bad = @ + 1]

\* DeleteObject(hbm): the bitmap is freed; while it is selected into a DC
\* the system defers the deletion until the DC lets go of it.
DeleteObject(g) ==
  IF g.hbm = "held"
  THEN [g EXCEPT !.hbm = "released", !.freed = Append(@, "hbm")]
  ELSE IF g.hbm = "selected" THEN [g EXCEPT !.hbm = "pending"]
  ELSE [g EXCEPT !.bad = @ + 1]

\* raise ctypes.WinError(...): capture_screen ends without a return value.
CapRaise ==
  /\ ipc' = "raised"
  /\ UNCHANGED <<done, bgra>>

\* sdc = user32.GetDC(0); if not sdc: raise
CapGetDC ==
  /\ ipc = "GetDC"
  /\ \/ /\ gdi' = [gdi EXCEPT !.sdc = "held"]
        /\ done' = Append(done, "GetDC")
        /\ ipc' = "CreateCompatibleDC"
        /\ UNCHANGED bgra
     \/ /\ CapRaise
        /\ UNCHANGED gdi
  /\ UNCHANGED <<cycleVars, scrW, scrH, outW, outH, display, reads, down, png>>

\* mdc = gdi32.CreateCompatibleDC(sdc); if not mdc: ReleaseDC; raise
CapCreateCompatibleDC ==
  /\ ipc = "CreateCompatibleDC"
  /\ \/ /\ gdi' = [gdi EXCEPT !.mdc = "held"]
        /\ done' = Append(done, "CreateCompatibleDC")
        /\ ipc' = "CreateDIBSection"
        /\ UNCHANGED bgra
     \/ /\ gdi' = ReleaseDC(gdi)
        /\ CapRaise
  /\ UNCHANGED <<cycleVars, scrW, scrH, outW, outH, display, reads, down, png>>

\* CapCreateDIBSection whose failure branch forgets DeleteDC(mdc).
CapCreateDIBSectionLeaksDC ==
  /\ ipc = "CreateDIBSection"
  /\ \/ /\ gdi' = [gdi EXCEPT !.hbm = "selected"]
        /\ done' = Append(done, "CreateDIBSection")
        /\ ipc' = "BitBlt"
        /\ UNCHANGED bgra
     \/ /\ gdi' = ReleaseDC(gdi)
        /\ CapRaise
  /\ UNCHANGED <<cycleVars, scrW, scrH, outW, outH, display, reads, down, png>>

\* hbm = gdi32.CreateDIBSection(...); if not hbm: DeleteDC; ReleaseDC; raise.
\* Then gdi32.SelectObject(mdc, hbm).
CapCreateDIBSection ==
  /\ ipc = "CreateDIBSection"
  /\ \/ /\ gdi' = [gdi EXCEPT !.hbm = "selected"]
        /\ done' = Append(done, "CreateDIBSection")
        /\ ipc' = "BitBlt"
        /\ UNCHANGED bgra
     \/ /\ gdi' = ReleaseDC(DeleteDC(gdi))
        /\ CapRaise
  /\ UNCHANGED <<cycleVars, scrW, scrH, outW, outH, display, reads, down, png>>

\* if not gdi32.BitBlt(...): DeleteObject; DeleteDC; ReleaseDC; raise
CapBitBlt ==
  /\ ipc = "BitBlt"
  /\ \/ /\ done' = Append(done, "BitBlt")
        /\ ipc' = "copy"
        /\ UNCHANGED <<gdi, bgra>>
     \/ /\ gdi' = ReleaseDC(DeleteDC(DeleteObject(gdi)))
        /\ CapRaise
  /\ UNCHANGED <<cycleVars, scrW, scrH, outW, outH, display, reads, down, png>>

\* out = ctypes.string_at(bits, sw * sh * 4); ReleaseDC; DeleteDC;
\* DeleteObject; return out.  The bitmap holds the display's pixels.
CapReturn ==
  /\ ipc = "copy"
  /\ bgra' = Slice(display, 0, scrW * scrH * 4)
  /\ gdi' = DeleteObject(DeleteDC(ReleaseDC(gdi)))
  /\ ipc' = "downsample"
  /\ UNCHANGED <<cycleVars, scrW, scrH, outW, outH, display, done, reads, down,
                 png>>

\* downsample_pixel whose source offset uses the height as the row length.
downsample_pixelRowLength(r, src, sw, sh, dw, dh, k) ==
  LET y == k \div dw
      x == k % dw
      sy == (y * sh) \div dh
      sx == (x * sw) \div dw
      si == (sy * sh + sx) * 4
      di == (y * dw + x) * 4
  IN [dst |-> SliceAssign(r.dst, di, di + 4, Slice(src, si, si + 4)),
      reads |-> r.reads \cup {<<sx, sy>>}]

\* downsample_pixel whose source column is scaled by the destination height.
downsample_pixelColumnByHeight(r, src, sw, sh, dw, dh, k) ==
  LET y == k \div dw
      x == k % dw
      sy == (y * sh) \div dh
      sx == (x * sw) \div dh
      si == (sy * sw + sx) * 4
      di == (y * dw + x) * 4
  IN [dst |-> SliceAssign(r.dst, di, di + 4, Slice(src, si, si + 4)),
      reads |-> r.reads \cup {<<sx, sy>>}]

\* downsample_pixel whose destination offset counts three bytes per pixel.
downsample_pixelThreeByteStride(r, src, sw, sh, dw, dh, k) ==
  LET y == k \div dw
      x == k % dw
      sy == (y * sh) \div dh
      sx == (x * sw) \div dw
      si == (sy * sw + sx) * 4
      di == (y * dw + x) * 3
  IN [dst |-> SliceAssign(r.dst, di, di + 4, Slice(src, si, si + 4)),
      reads |-> r.reads \cup {<<sx, sy>>}]

\* The body of downsample's two loops for the destination pixel number k
\* (k = y * dw + x), on r = [dst, reads].
downsample_pixel(r, src, sw, sh, dw, dh, k) ==
  LET y == k \div dw
      x == k % dw
      sy == (y * sh) \div dh
      sx == (x * sw) \div dw
      si == (sy * sw + sx) * 4
      di == (y * dw + x) * 4
  IN [dst |-> SliceAssign(r.dst, di, di + 4, Slice(src, si, si + 4)),
      reads |-> r.reads \cup {<<sx, sy>>}]

\* for y in range(dh): for x in range(dw): ..., from pixel number k on.
RECURSIVE downsample_loop(_, _, _, _, _, _, _)
downsample_loop(r, src, sw, sh, dw, dh, k) ==
  IF k >= dw * dh THEN r
  ELSE downsample_loop(downsample_pixel(r, src, sw, sh, dw, dh, k),
                       src, sw, sh, dw, dh, k + 1)

\* downsample whose equal-size shortcut returns the new, still unfilled
\* destination buffer instead of the source.
downsampleReturnsUnfilled(src, sw, sh, dw, dh) ==
  IF <<sw, sh>> = <<dw, dh>>
  THEN [dst |-> Zeros(dw * dh * 4), reads |-> {}]
  ELSE downsample_loop([dst |-> Zeros(dw * dh * 4), reads |-> {}],
                       src, sw, sh, dw, dh, 0)

\* downsample(src, sw, sh, dw, dh): the returned bytes and the source pixels
\* read on the way.
downsample(src, sw, sh, dw, dh) ==
  IF <<sw, sh>> = <<dw, dh>>
  THEN [dst |-> src, reads |-> {}]
  ELSE downsample_loop([dst |-> Zeros(dw * dh * 4), reads |-> {}],
                       src, sw, sh, dw, dh, 0)

\* down = downsample(bgra, sw, sh, SCREEN_W, SCREEN_H)
RunDownsample ==
  /\ ipc = "downsample"
  /\ LET r == downsample(bgra, scrW, scrH, outW, outH)
     IN /\ down' = r.dst
        /\ reads' = r.reads
  /\ ipc' = "encode"
  /\ UNCHANGED <<cycleVars, scrW, scrH, outW, outH, display, gdi, done, bgra,
                 png>>

\* An octet of the encoder's output is [byte |-> n] with n in 0..255, or an
\* octet of a library call's result, which is kept symbolic: zlib.compress
\* and zlib.crc32 are not code of this program.
Octets(bs) == [i \in 1..Len(bs) |-> [byte |-> bs[i]]]

\* struct.pack(">I", n): four octets, most significant first.
pack_I(n) ==
  Octets(<<(n \div 16777216) % 256, (n \div 65536) % 256, (n \div 256) % 256,
           n % 256>>)

\* zlib.compress(raw, level): one deflate stream, an opaque payload from
\* which zlib.decompress gives raw back.
zlib_compress(raw, level) == <<[zlib |-> raw, level |-> level]>>

\* struct.pack(">I", zlib.crc32(data) & 0xFFFFFFFF): the four octets of the
\* CRC-32 of data.
pack_crc32(data) == [i \in 1..4 |-> [crc32 |-> data, index |-> i]]

\* b"\x89PNG\r\n\x1a\n"
Signature == Octets(<<137, 80, 78, 71, 13, 10, 26, 10>>)

\* b"IHDR", b"IDAT", b"IEND"
IHDR == Octets(<<73, 72, 68, 82>>)
IDAT == Octets(<<73, 68, 65, 84>>)
IEND == Octets(<<73, 69, 78, 68>>)

\* encode_pixel that copies the three colour bytes in the buffer's order.
encode_pixelKeepsOrder(raw, bgra_, width, k) ==
  LET y == k \div width
      x == k % width
      row_offset == y * width * 4
      row == Slice(bgra_, row_offset, row_offset + width * 4)
      di == y * (width * 3 + 1) + 1
      raw0 == IF x = 0 THEN [raw EXCEPT ![y * (width * 3 + 1) + 1] = 0] ELSE raw
  IN [raw0 EXCEPT ![di + x * 3 + 1] = row[x * 4 + 1],
                  ![di + x * 3 + 1 + 1] = row[x * 4 + 1 + 1],
                  ![di + x * 3 + 2 + 1] = row[x * 4 + 2 + 1]]

\* The body of encode_png's inner loop for pixel number k (k = y * width +
\* x) of the buffer; the row's filter byte is written when the row begins.
encode_pixel(raw, bgra_, width, k) ==
  LET y == k \div width
      x == k % width
      row_offset == y * width * 4
      row == Slice(bgra_, row_offset, row_offset + width * 4)
      di == y * (width * 3 + 1) + 1
      raw0 == IF x = 0 THEN [raw EXCEPT ![y * (width * 3 + 1) + 1] = 0] ELSE raw
  IN [raw0 EXCEPT ![di + x * 3 + 1] = row[x * 4 + 2 + 1],
                  ![di + x * 3 + 1 + 1] = row[x * 4 + 1 + 1],
                  ![di + x * 3 + 2 + 1] = row[x * 4 + 1]]

\* for y in range(height): ... for x in range(width): ..., from pixel k on.
RECURSIVE encode_rows(_, _, _, _, _)
encode_rows(raw, bgra_, width, height, k) ==
  IF k >= width * height THEN raw
  ELSE encode_rows(encode_pixel(raw, bgra_, width, k), bgra_, width, height,
                   k + 1)

\* chunk whose CRC covers the payload alone.
chunkCrcOfData(tag, data) ==
  pack_I(Len(data)) \o tag \o data \o pack_crc32(data)

\* chunk(tag, data): length + tag + data + crc
chunk(tag, data) == pack_I(Len(data)) \o tag \o data \o pack_crc32(tag \o data)

\* encode_png(bgra, width, height)
encode_png(bgra_, width, height) ==
  LET raw == encode_rows(Zeros((width * 3 + 1) * height), bgra_, width,
                         height, 0)
      comp == zlib_compress(raw, 6)
      ihdr == pack_I(width) \o pack_I(height) \o Octets(<<8, 2, 0, 0, 0>>)
  IN Signature \o chunk(IHDR, ihdr) \o chunk(IDAT, comp) \o chunk(IEND, <<>>)

\* png = encode_png(down, SCREEN_W, SCREEN_H)
RunEncode ==
  /\ ipc = "encode"
  /\ png' = encode_png(down, outW, outH)
  /\ ipc' = "encoded"
  /\ UNCHANGED <<cycleVars, scrW, scrH, outW, outH, display, gdi, done, bgra,
                 reads, down>>

\* ------------------------------------------------------------ specification
OrchNext ==
  \/ Enter \/ EnterReturn \/ CycleStart \/ Capture \/ Downsample \/ Encode
  \/ Dump \/ Infer \/ ReadNarrative \/ UpdateCall \/ UpdateReturn \/ Dispatch
  \/ Inject \/ Settle \/ Backoff \/ Interrupt \/ ExitPost \/ ExitStop
  \/ ExitJoin

WinNext == WCreate \/ WInit \/ WLoopTest \/ WReceiveSent \/ WGetMessage

Next == OrchNext \/ WinNext \/ EnvPost

Spec == Init /\ [][Next]_vars

\* Both threads are scheduled: a thread that can take a step eventually
\* takes one.  The environment owes nothing.
FairSpec == Spec /\ WF_vars(OrchNext) /\ WF_vars(WinNext)

\* The image pipeline of one cycle on its own, for every display of at most
\* MaxDim x MaxDim pixels and every uniform display of at most MaxUniform x
\* MaxUniform pixels, towards every size of at most MaxDim x MaxDim.
ImageInit ==
  /\ CycleInit
  /\ ipc = "GetDC"
  /\ outW \in 1..MaxDim
  /\ outH \in 1..MaxDim
  /\ \/ /\ scrW \in 1..MaxDim
        /\ scrH \in 1..MaxDim
        /\ display \in Buffers(scrW, scrH)
     \/ /\ scrW \in 1..MaxUniform
        /\ scrH \in 1..MaxUniform
        /\ display \in {Uniform(p, scrW, scrH) : p \in Pixels}
  /\ gdi = NoGdi
  /\ done = <<>>
  /\ bgra = <<>>
  /\ reads = {}
  /\ down = <<>>
  /\ png = <<>>

ImageNext ==
  \/ CapGetDC \/ CapCreateCompatibleDC \/ CapCreateDIBSection \/ CapBitBlt
  \/ CapReturn \/ RunDownsample \/ RunEncode

ImageSpec == ImageInit /\ [][ImageNext]_vars

\* The dispatch of one action on its own: the first cycle has reached the
\* if/elif chain (the window thread has not run yet, so hud.update did
\* nothing), for every display of Displays, every action name and every
\* argument value of InputArgsOf.
InputInit ==
  /\ ImageIdle
  /\ variant \in Variants
  /\ conv \in Displays
  /\ spts = <<>>
  /\ calls = <<>>
  /\ opc = "dispatch"
  /\ step = 1
  /\ current_story = INITIAL_STORY
  /\ tool \in ToolNames
  /\ args \in InputArgsOf(tool)
  /\ story = INITIAL_STORY
  /\ batches = <<>>
  /\ events = <<>>
  /\ stages = <<"capture", "downsample", "encode", "dump", "infer", "read", "update">>
  /\ failure = "none"
  /\ exitReason = "none"
  /\ storyAtStart = INITIAL_STORY
  /\ textAtStart = ""
  /\ readyAtStart = FALSE
  /\ hwnd = "NULL"
  /\ ready_event = FALSE
  /\ stop_event = FALSE
  /\ wpc = "create"
  /\ winState = "none"
  /\ winText = ""
  /\ msgq = <<>>
  /\ sent = <<>>
  /\ applied = <<>>
  /\ shutdownLog = <<>>
  /\ envCount = 0

InputNext == Dispatch \/ Inject \/ Settle \/ Backoff

InputSpec == InputInit /\ [][InputNext]_vars

\* ------------------------------------------------------------------ claims
IsPrefix(s, t) == Len(s) <= Len(t) /\ s = SubSeq(t, 1, Len(s))

Range(s) == {s[i] : i \in 1..Len(s)}

\* The current cycle ended in an error raised by the inference call.
InferenceFailed == failure = "inference"

\* C1, as stated: when the inference call raises in a cycle, the narrative
\* and the overlay's text are what they were when the cycle began, and no
\* input event was synthesized.
C1_Original ==
  InferenceFailed =>
    /\ current_story = storyAtStart
    /\ winText = textAtStart
    /\ events = <<>>

\* C1, amended: when the inference call raises in a cycle, the narrative is
\* what it was when the cycle began, the cycle issues no overlay update and
\* synthesizes no input event, the overlay's text is unchanged if the
\* overlay was Ready when the cycle began, the loop is not left, and the
\* backoff and the next cycle can start.
C1_InferenceFailureIsolated ==
  InferenceFailed =>
    /\ current_story = storyAtStart
    /\ events = <<>>
    /\ batches = <<>>
    /\ "update" \notin Range(stages)
    /\ sent = <<>>
    /\ readyAtStart => winText = textAtStart
    /\ exitReason = "none"
    /\ opc \in {"backoff", "loop"}
    /\ opc = "backoff" => ENABLED Backoff
    /\ (opc = "loop" /\ step < MaxCycles) => ENABLED CycleStart

\* A second cycle failed in inference after the first one had replaced the
\* narrative and the overlay's text.
C1_Witness ==
  /\ InferenceFailed
  /\ step = 2
  /\ opc = "loop"
  /\ current_story \in Stories
  /\ winText = current_story
  /\ readyAtStart

\* C2, as stated: no error raised by a stage of a cycle ends the loop; the
\* loop is left only by an external interrupt (or, in main.py, by the
\* action done, which is no error).
C2_EveryErrorCaught == exitReason \in {"none", "interrupt", "done"}

\* C3, as stated: a cycle that ends in a caught error leaves the narrative
\* as it was when the cycle began, and the overlay's text too (compared in
\* the cycles that began with the overlay Ready, where only update can
\* change it).
C3_FailedCycleChangesNothing ==
  failure # "none" =>
    /\ current_story = storyAtStart
    /\ readyAtStart => winText = textAtStart

\* C4, as stated: an update changes the window's text only while the ready
\* signal is set and the stop signal is not, and an update issued before
\* the ready signal was set never changes the window's text.
C4_UpdateOnlyWhenReady ==
  applied # <<>> =>
    /\ applied[1].ready
    /\ ~applied[1].stop
    /\ applied[1].issuedReady

ShutdownBegun == opc \in {"exit_stop", "exit_join", "exited"}

\* C5: shutdown posts the destroy request (only when a handle exists), then
\* sets the stop signal, then joins the window thread; once shutdown has
\* begun the orchestrator issues no update and no further use of the handle.
C5_ShutdownOrder ==
  /\ \/ IsPrefix(shutdownLog, <<"post", "stop", "join">>)
     \/ IsPrefix(shutdownLog, <<"stop", "join">>)
  /\ stop_event <=> "stop" \in Range(shutdownLog)
  /\ opc = "exited" <=> "join" \in Range(shutdownLog)
  /\ opc = "exit_join" => stop_event
  /\ "WM_DESTROY" \in Range(msgq) => "post" \in Range(shutdownLog)
  /\ "post" \in Range(shutdownLog) => hwnd # "NULL"
  /\ ShutdownBegun => sent = <<>>

\* Shutdown ran all three steps on an existing window.
C5_Witness ==
  /\ opc = "exited"
  /\ shutdownLog = <<"post", "stop", "join">>
  /\ hwnd # "NULL"

\* The overlay's state machine, by the window thread's position:
\* Uninitialized 0, Starting 1, Ready/Running 3, Terminated 5.
WRank(p) ==
  CASE p = "unstarted" -> 0
    [] p \in {"create", "init"} -> 1
    [] p \in {"loop_test", "getmsg"} -> 3
    [] p = "terminated" -> 5

\* C6, as stated: the overlay never moves backwards through its states, and
\* once shutdown has set the stop signal the window thread eventually
\* leaves its message loop and ends, its window destroyed.
C6_OverlayTerminates ==
  /\ [][WRank(wpc') >= WRank(wpc)]_vars
  /\ stop_event ~> (wpc = "terminated" /\ winState # "live")

\* C7: shutdown is never blocked: each of its steps can be taken in every
\* state, the bounded join included, whatever the window thread does.
C7_ShutdownNeverBlocks ==
  /\ opc = "exit_post" => ENABLED ExitPost
  /\ opc = "exit_stop" => ENABLED ExitStop
  /\ opc = "exit_join" => ENABLED ExitJoin

\* Shutdown has returned while the window thread still waits in its message
\* loop with nothing to wake it.
C7_Witness ==
  /\ opc = "exited"
  /\ stop_event
  /\ wpc = "getmsg"
  /\ msgq = <<>>

\* The window thread ended because the window could not be created.
CreationFailed == wpc = "terminated" /\ winState = "none"

\* C8: startup's wait can return in every state, ready or not; when the
\* window cannot be created the window thread still sets the ready signal,
\* no update ever reaches a window or blocks or raises, and the
\* orchestrator keeps starting cycles.
C8_StartupDegrades ==
  /\ opc = "enter_wait" => ENABLED EnterReturn
  /\ CreationFailed =>
       /\ ready_event
       /\ hwnd = "NULL"
       /\ winText = ""
       /\ applied = <<>>
       /\ sent = <<>>
       /\ opc # "update_wait"
       /\ opc = "update" => ENABLED UpdateCall
       /\ opc = "dispatch" => failure = "none"
       /\ (opc = "loop" /\ step < MaxCycles) => ENABLED CycleStart

\* Without a window, a second cycle has made its update call and gone on.
C8_Witness ==
  /\ CreationFailed
  /\ step = 2
  /\ opc = "settle"
  /\ "update" \in Range(stages)
  /\ current_story \in Stories

StageOrder ==
  <<"capture", "downsample", "encode", "dump", "infer", "read", "update",
    "dispatch", "settle">>

\* The cycle in progress is over: it completed its dispatch or failed.
CycleOver ==
  \/ step = 0
  \/ failure # "none"
  \/ "dispatch" \in Range(stages) /\ batches = <<>>

\* C9: the stages of a cycle run in the fixed order, each at most once; the
\* inputs of a cycle are those of one gesture and come after the cycle's
\* overlay update has returned; a cycle starts only when the one before it
\* is over.
C9_StageOrder ==
  /\ IsPrefix(stages, StageOrder)
  /\ events # <<>> => /\ "update" \in Range(stages)
                      /\ "dispatch" \in Range(stages)
  /\ IsPrefix(events, Flatten(GestureOf(variant, tool, args, conv)))
  /\ opc \in {"update", "update_wait"} => events = <<>>
  /\ sent # <<>> => opc = "update_wait"
  /\ opc = "loop" => CycleOver
  /\ opc = "capture" => stages = <<>> /\ events = <<>>

\* A cycle has run every stage, its gesture a complete drag, after an update
\* that reached the window.
C9_Witness ==
  /\ opc = "loop"
  /\ stages = StageOrder
  /\ tool = "drag"
  /\ Len(events) = DragSteps + 3
  /\ winText = current_story
  /\ current_story \in Stories

\* The dispatch of the current cycle met a name its chain does not list.
UnknownDispatched ==
  /\ tool \notin KnownTools(variant) \cup {"none"}
  /\ "dispatch" \in Range(stages)

NarrativeMissing == "read" \in Range(stages) /\ args.story = NoStory

\* The part of C11 that does not concern the overlay's text: the narrative
\* used and the authoritative narrative are those of the cycle before, the
\* missing field is no error and does not end the loop, and the returned
\* action is dispatched with its own gesture.
FallsBackAndDispatches ==
  /\ story = storyAtStart
  /\ current_story = storyAtStart
  /\ "dispatch" \notin Range(stages) => failure = "none"
  /\ ~BreaksLoop(variant, tool) =>
       /\ exitReason = "none"
       /\ opc \in {"update", "update_wait", "dispatch", "inject", "settle",
                   "backoff", "loop"}
       /\ opc = "update" => ENABLED UpdateCall
       /\ opc = "dispatch" => ENABLED Dispatch
       /\ sent # <<>> => sent[1].text = storyAtStart
       /\ ("dispatch" \in Range(stages) /\ failure = "none") =>
            events \o Flatten(batches) = Flatten(GestureOf(variant, tool, args, conv))

\* C11, as stated: when the response carries no narrative field, the
\* narrative of the cycle is the previous one, the authoritative narrative
\* and the overlay's text are what they were when the cycle began, the
\* cycle is no error and the returned action is dispatched (the overlay's
\* text is compared in the cycles that began with the overlay Ready, where
\* only update can change it).
C11_Original ==
  NarrativeMissing =>
    /\ FallsBackAndDispatches
    /\ readyAtStart => winText = textAtStart

\* C11, amended: as stated, except for the overlay: the update of the cycle
\* carries the previous narrative, so the overlay's text is unchanged
\* whenever it showed that narrative when the cycle began.
C11_MissingNarrativeFallsBack ==
  NarrativeMissing =>
    /\ FallsBackAndDispatches
    /\ textAtStart = storyAtStart => winText = textAtStart

\* A second cycle without a narrative field has completed a click while the
\* overlay went on showing the first cycle's narrative.
C11_Witness ==
  /\ NarrativeMissing
  /\ step = 2
  /\ opc = "loop"
  /\ stages = StageOrder
  /\ tool = "click"
  /\ events = Flatten(mouse_click(500, 400, conv))
  /\ storyAtStart = "s1"
  /\ textAtStart = "s1"
  /\ winText = "s1"

\* The response of the current cycle has been read and carries a "story"
\* (main.py leaves the loop on "done" before the assignment; the program
\* ends there and that cycle is not counted).
NarrativeReturned ==
  /\ "read" \in Range(stages)
  /\ args.story # NoStory
  /\ ~BreaksLoop(variant, tool)

\* C12: once a cycle's response with a narrative field has been read, the
\* authoritative narrative is exactly the returned narrative, whatever it
\* was before; the narrative is always the initial story or one returned
\* narrative, never a combination; and it changes only by being replaced
\* with the narrative of the response just read.
C12_NarrativeReplaced ==
  /\ [](NarrativeReturned => (current_story = args.story /\ story = args.story))
  /\ [](current_story \in Stories \cup {INITIAL_STORY})
  /\ [][current_story' # current_story =>
         (opc = "read" /\ args.story # NoStory /\ current_story' = args.story)]_vars

\* The second cycle has replaced the first cycle's narrative by its own.
C12_Witness ==
  /\ NarrativeReturned
  /\ step = 2
  /\ opc = "loop"
  /\ storyAtStart = "s1"
  /\ args.story = "s2"
  /\ current_story = "s2"

\* capture_screen has returned or raised.
CaptureEnded == ipc \in {"raised", "downsample", "encode", "encoded"}

\* The call that acquires each GDI object of capture_screen.
AcquiredBy == [sdc |-> "GetDC", mdc |-> "CreateCompatibleDC",
               hbm |-> "CreateDIBSection"]

CaptureSteps == <<"GetDC", "CreateCompatibleDC", "CreateDIBSection", "BitBlt">>

IsByte(e) == DOMAIN e = {"byte"}

AllBytes(s) == \A i \in 1..Len(s) : IsByte(s[i])

\* The number four plain octets hold, most significant first.
Unpack_I(s) ==
  ((s[1].byte * 256 + s[2].byte) * 256 + s[3].byte) * 256 + s[4].byte

NoChunks == [ok |-> FALSE, chunks |-> <<>>]

\* The chunks of p from offset pos on: each is a length, a tag, that many
\* payload octets and the CRC-32 of tag and payload.
RECURSIVE ReadChunks(_, _)
ReadChunks(p, pos) ==
  IF pos = Len(p) THEN [ok |-> TRUE, chunks |-> <<>>]
  ELSE IF pos + 12 > Len(p) \/ ~AllBytes(Slice(p, pos, pos + 8)) THEN NoChunks
  ELSE LET n == Unpack_I(Slice(p, pos, pos + 4))
           tag == Slice(p, pos + 4, pos + 8)
           data == Slice(p, pos + 8, pos + 8 + n)
           crc == Slice(p, pos + 8 + n, pos + 12 + n)
       IN IF pos + 12 + n > Len(p) \/ crc # pack_crc32(tag \o data)
          THEN NoChunks
          ELSE LET rest == ReadChunks(p, pos + 12 + n)
               IN [ok |-> rest.ok,
                   chunks |-> <<[tag |-> tag, data |-> data]>> \o rest.chunks]

\* zlib.decompress of a payload: defined on one deflate stream.
IsStream(data) == Len(data) = 1 /\ DOMAIN data[1] = {"zlib", "level"}

Inflate(data) == data[1].zlib

PaethPredictor(a, b, c) ==
  LET pa == Abs(b - c)
      pb == Abs(a - c)
      pc == Abs(a + b - 2 * c)
  IN IF pa <= pb /\ pa <= pc THEN a ELSE IF pb <= pc THEN b ELSE c

\* Reconstruction of the scanlines (3 bytes per pixel), byte by byte from
\* byte number k of the image on; recon holds the bytes already done.
RECURSIVE Unfilter(_, _, _, _, _)
Unfilter(raw, width, height, recon, k) ==
  IF k >= width * 3 * height THEN recon
  ELSE LET y == k \div (width * 3)
           c == k % (width * 3)
           ft == raw[y * (width * 3 + 1) + 1]
           filt == raw[y * (width * 3 + 1) + 1 + c + 1]
           a == IF c >= 3 THEN recon[k - 3 + 1] ELSE 0
           b == IF y > 0 THEN recon[k - width * 3 + 1] ELSE 0
           cc == IF c >= 3 /\ y > 0 THEN recon[k - width * 3 - 3 + 1] ELSE 0
           pred == CASE ft = 0 -> 0
                     [] ft = 1 -> a
                     [] ft = 2 -> b
                     [] ft = 3 -> (a + b) \div 2
                     [] OTHER -> PaethPredictor(a, b, cc)
       IN Unfilter(raw, width, height, Append(recon, (filt + pred) % 256), k + 1)

NoImage == [ok |-> FALSE, width |-> 0, height |-> 0, rgb |-> <<>>]

\* The image a decoder reads from p: signature, then IHDR, IDAT, IEND with
\* valid CRCs, 8-bit truecolour, no interlace; rgb holds R,G,B per pixel,
\* rows top-down.
Decode(p) ==
  IF Len(p) < 8 \/ Slice(p, 0, 8) # Signature THEN NoImage
  ELSE LET r == ReadChunks(p, 8)
           n == Len(r.chunks)
       IN IF ~r.ok \/ n < 3 THEN NoImage
          ELSE LET hd == r.chunks[1]
                   idat == Flatten([i \in 1..(n - 2) |-> r.chunks[i + 1].data])
               IN IF \/ hd.tag # IHDR
                     \/ Len(hd.data) # 13
                     \/ ~AllBytes(hd.data)
                     \/ \E i \in 2..(n - 1) : r.chunks[i].tag # IDAT
                     \/ r.chunks[n].tag # IEND
                     \/ r.chunks[n].data # <<>>
                     \/ ~IsStream(idat)
                  THEN NoImage
                  ELSE LET width == Unpack_I(Slice(hd.data, 0, 4))
                           height == Unpack_I(Slice(hd.data, 4, 8))
                           raw == Inflate(idat)
                       IN IF \/ Slice(hd.data, 8, 13) # Octets(<<8, 2, 0, 0, 0>>)
                             \/ width = 0 \/ height = 0
                             \/ Len(raw) # (width * 3 + 1) * height
                             \/ \E y \in 0..(height - 1) :
                                  raw[y * (width * 3 + 1) + 1] \notin 0..4
                          THEN NoImage
                          ELSE [ok |-> TRUE, width |-> width, height |-> height,
                                rgb |-> Unfilter(raw, width, height, <<>>, 0)]

\* The (R, G, B) of pixel (x, y) in a buffer of B,G,R,A pixels.
ColourOf(buf, width, x, y) ==
  LET i == (y * width + x) * 4
  IN <<buf[i + 3], buf[i + 2], buf[i + 1]>>

\* C14: the encoder's output for a width x height buffer decodes to a
\* width x height image whose (R, G, B) at every pixel is that of the
\* buffer's pixel.
C14_EncodeLossless ==
  ipc = "encoded" =>
    LET d == Decode(png)
    IN /\ d.ok
       /\ d.width = outW
       /\ d.height = outH
       /\ \A x \in 0..(outW - 1), y \in 0..(outH - 1) :
            SubSeq(d.rgb, (y * outW + x) * 3 + 1, (y * outW + x) * 3 + 3)
              = ColourOf(down, outW, x, y)

\* A 2 x 2 buffer of both colours has been encoded.
C14_Witness ==
  /\ ipc = "encoded"
  /\ outW = 2
  /\ outH = 2
  /\ down = <<0, 0, 255, 255, 10, 20, 30, 40, 10, 20, 30, 40, 0, 0, 255, 255>>
  /\ Decode(png).ok

\* The uncompressed image data the format prescribes for a buffer of
\* B,G,R,A pixels: per row one filter byte 0, then R,G,B of each pixel.
ScanlinesOf(buf, width, height) ==
  Flatten([y \in 1..height |->
             <<0>> \o Flatten([x \in 1..width |-> ColourOf(buf, width, x - 1, y - 1)])])

\* C15: the encoder's output is the 8-byte signature and then exactly three
\* chunks, header, compressed image data and terminator in this order, each
\* a 4-byte big-endian payload length, a 4-byte tag, the payload and the
\* CRC-32 of tag and payload; the header holds width, height, 8, 2, 0, 0, 0;
\* the image data decompresses to, per row, a filter byte 0 and width
\* pixels as R,G,B taken from the buffer's B,G,R,A with alpha dropped.
C15_ContainerLayout ==
  ipc = "encoded" =>
    /\ Slice(png, 0, 8) = Octets(<<137, 80, 78, 71, 13, 10, 26, 10>>)
    /\ LET r == ReadChunks(png, 8)
       IN /\ r.ok
          /\ Len(r.chunks) = 3
          /\ r.chunks[1].tag = Octets(<<73, 72, 68, 82>>)
          /\ r.chunks[1].data =
               pack_I(outW) \o pack_I(outH) \o Octets(<<8, 2, 0, 0, 0>>)
          /\ r.chunks[2].tag = Octets(<<73, 68, 65, 84>>)
          /\ IsStream(r.chunks[2].data)
          /\ Inflate(r.chunks[2].data) = ScanlinesOf(down, outW, outH)
          /\ r.chunks[3].tag = Octets(<<73, 69, 78, 68>>)
          /\ r.chunks[3].data = <<>>
          /\ Len(png) = 8 + (12 + 13) + (12 + Len(r.chunks[2].data)) + 12

\* A 2 x 1 buffer of both colours has been encoded: its image data is one
\* row of seven bytes.
C15_Witness ==
  /\ ipc = "encoded"
  /\ outW = 2
  /\ outH = 1
  /\ down = <<10, 20, 30, 40, 0, 0, 255, 255>>
  /\ Inflate(ReadChunks(png, 8).chunks[2].data) = <<0, 30, 20, 10, 255, 0, 0>>

\* downsample has returned.
Downsampled == ipc \in {"encode", "encoded"}

\* The four bytes of pixel (x, y) in a buffer of the given width.
PixelAt(buf, width, x, y) ==
  SubSeq(buf, (y * width + x) * 4 + 1, (y * width + x) * 4 + 4)

\* C17: the downsampler's output has dstW * dstH pixels, its pixel (x, y)
\* is the source's pixel (floor(x*srcW/dstW), floor(y*srcH/dstH)), and the
\* source buffer is afterwards what capture returned.
C17_NearestNeighbour ==
  Downsampled =>
    /\ Len(down) = outW * outH * 4
    /\ \A x \in 0..(outW - 1), y \in 0..(outH - 1) :
         PixelAt(down, outW, x, y)
           = PixelAt(bgra, scrW, (x * scrW) \div outW, (y * scrH) \div outH)
    /\ bgra = display

\* A 2 x 2 display of both colours was reduced to 1 x 2: the left column.
C17_Witness ==
  /\ Downsampled
  /\ scrW = 2 /\ scrH = 2 /\ outW = 1 /\ outH = 2
  /\ bgra = <<0, 0, 255, 255, 10, 20, 30, 40, 10, 20, 30, 40, 0, 0, 255, 255>>
  /\ down = <<0, 0, 255, 255, 10, 20, 30, 40>>

\* C18: every source pixel (sx, sy) the downsampler reads lies in
\* [0, srcW) x [0, srcH), and its four bytes lie inside the source buffer of
\* srcW * srcH * 4 bytes, whether the image shrinks or grows.
C18_ReadsInBounds ==
  Downsampled =>
    /\ Len(bgra) = scrW * scrH * 4
    /\ \A r \in reads :
         /\ 0 <= r[1] /\ r[1] < scrW
         /\ 0 <= r[2] /\ r[2] < scrH
         /\ (r[2] * scrW + r[1]) * 4 + 4 <= Len(bgra)
    /\ (<<scrW, scrH>> # <<outW, outH>>) => reads # {}

\* A 4 x 1 display was made 2 x 2: narrower and taller at once.
C18_Witness ==
  /\ Downsampled
  /\ scrW = 4 /\ scrH = 1 /\ outW = 2 /\ outH = 2
  /\ reads = {<<0, 0>>, <<2, 0>>}

\* C19: downsampling a buffer to its own dimensions returns a buffer equal
\* to the source.
C19_DownsampleIdentity ==
  (Downsampled /\ scrW = outW /\ scrH = outH) => down = bgra

\* A 2 x 2 buffer of both colours was downsampled to 2 x 2.
C19_Witness ==
  /\ Downsampled
  /\ scrW = 2 /\ scrH = 2 /\ outW = 2 /\ outH = 2
  /\ bgra = <<10, 20, 30, 40, 0, 0, 255, 255, 0, 0, 255, 255, 10, 20, 30, 40>>
  /\ down = bgra

\* The pipeline has run on a 4 x 4 display whose every pixel is red, towards
\* 2 x 2.
RedScenario ==
  /\ ipc = "encoded"
  /\ scrW = 4 /\ scrH = 4 /\ outW = 2 /\ outH = 2
  /\ display = Uniform(Red, 4, 4)

\* C20: a 4 x 4 buffer in which every pixel is red, downsampled to 2 x 2 and
\* encoded, decodes to a 2 x 2 image in which every pixel is red.
C20_RedEndToEnd ==
  RedScenario =>
    Decode(png) = [ok |-> TRUE, width |-> 2, height |-> 2,
                   rgb |-> <<255, 0, 0, 255, 0, 0, 255, 0, 0, 255, 0, 0>>]

\* The scenario has been run: four source pixels were sampled.
C20_Witness ==
  /\ RedScenario
  /\ reads = {<<0, 0>>, <<2, 0>>, <<0, 2>>, <<2, 2>>}
  /\ bgra = Uniform(Red, 4, 4)

\* ------------------------------------------- claims: coordinates and input
\* The dispatch has mapped the points of a pointer action.
PointsMapped == spts # <<>>

\* C21: for positive display width and height, every pixel to_screen returns
\* satisfies 0 <= px < width and 0 <= py < height, the inputs 1000 and above
\* included.
C21_PixelInsideDisplay ==
  (PointsMapped /\ conv.sw > 0 /\ conv.sh > 0) =>
    \A j \in 1..Len(spts) :
      /\ 0 <= spts[j][1] /\ spts[j][1] < conv.sw
      /\ 0 <= spts[j][2] /\ spts[j][2] < conv.sh

\* A pointer action that the running variant lists, with its arguments.
PointerAction ==
  /\ tool \in KnownTools(variant) \cap {"click", "right_click", "double_click", "drag"}
  /\ args.ok

\* The arguments with every coordinate clamped into [0, 1000].
Clamp(v) == Max(0, Min(1000, v))
Clamped(a) ==
  [a EXCEPT !.x = Clamp(@), !.y = Clamp(@), !.x1 = Clamp(@), !.y1 = Clamp(@),
            !.x2 = Clamp(@), !.y2 = Clamp(@)]

\* C22: a point outside [0, 1000] on either axis is mapped to the pixel of
\* the same point clamped into range first, and is never rejected: the
\* dispatch of a pointer action maps its points and does not raise.
C22_ClampEquivalence ==
  (PointerAction /\ "dispatch" \in Range(stages)) =>
    /\ PointsMapped
    /\ failure \in {"none", "injection"}
    /\ spts = ScreenPoints(variant, tool, Clamped(args), conv)

\* A drag from below the range to above it was mapped to the display's
\* corners.
C22_Witness ==
  /\ tool = "drag"
  /\ conv = [sw |-> 1000, sh |-> 800]
  /\ args.x1 = -50 /\ args.y1 = 1500 /\ args.x2 = 1500 /\ args.y2 = 0
  /\ spts = << <<0, 800>>, <<1000, 0>> >>
  /\ opc = "loop"
  /\ failure = "none"

\* The pointer-move events among the events injected so far.
IsMove(e) == e.type = "INPUT_MOUSE" /\ "MOUSEEVENTF_MOVE" \in e.dwFlags
Moves == SelectSeq(events, IsMove)

\* C23: when the display width or the display height is not positive,
\* to_win32 returns (0, 0) for every pixel: every move targets (0, 0).
C23_DegenerateDisplay ==
  (conv.sw <= 0 \/ conv.sh <= 0) =>
    \A j \in 1..Len(Moves) : Moves[j].dx = 0 /\ Moves[j].dy = 0

\* C24: on a display of positive size every pointer-move event of click,
\* right_click, double_click and drag, the interpolated moves of drag
\* included, carries device coordinates in [0, 65535], whatever the
\* normalized point, in range or out of it.
C24_DeviceRange ==
  (conv.sw > 0 /\ conv.sh > 0) =>
    \A j \in 1..Len(Moves) :
      /\ Moves[j].dx \in 0..65535
      /\ Moves[j].dy \in 0..65535

\* A drag from beyond the right edge to beyond the left edge has sent all
\* its moves: the first at 65535, the last at 0.
C24_Witness ==
  /\ tool = "drag"
  /\ conv.sw > 0 /\ conv.sh > 0
  /\ args.x1 = 1500 /\ args.x2 = -50 /\ args.y1 = 1500 /\ args.y2 = 500
  /\ Len(Moves) = DragSteps + 1
  /\ Moves[1].dx = 65535 /\ Moves[1].dy = 65535
  /\ Moves[DragSteps + 1].dx = 0
  /\ batches = <<>>

\* The cycle's action is click with the normalized point (500, 500) on a
\* 1000 x 800 display, and its gesture has been sent without a failure.
ClickScenario ==
  /\ tool = "click"
  /\ args.ok /\ args.x = 500 /\ args.y = 500
  /\ conv = [sw |-> 1000, sh |-> 800]
  /\ opc = "settle"

\* One call has sent three events: an absolute move, then primary button
\* down, then primary button up.
OneClickBatch ==
  /\ calls = <<3>>
  /\ Len(events) = 3
  /\ IsMove(events[1]) /\ "MOUSEEVENTF_ABSOLUTE" \in events[1].dwFlags
  /\ events[2] = LeftDown
  /\ events[3] = LeftUp

\* C25 as stated: the move targets (32767, 53738) within a tolerance of 1.
C25_Original ==
  ClickScenario =>
    /\ OneClickBatch
    /\ Abs(events[1].dx - 32767) <= 1
    /\ Abs(events[1].dy - 53738) <= 1

\* C25: a cycle whose action is click with the normalized point (500, 500)
\* on a 1000 x 800 display sends exactly one batch of three events, absolute
\* move then button down then button up, and the move targets the device
\* coordinates (32767, 32767), the centre of the display.
C25_ClickAtCentre ==
  ClickScenario =>
    /\ OneClickBatch
    /\ spts = << <<500, 400>> >>
    /\ events[1].dx = 32767
    /\ events[1].dy = 32767

\* The scenario has run in the second cycle of the full variant.
C25_Witness ==
  /\ ClickScenario
  /\ variant = "chuj"
  /\ step = 2
  /\ events = <<MoveTo(<<32767, 32767>>), LeftDown, LeftUp>>

\* The device coordinate of the normalized coordinate v on an axis of dim
\* pixels: clamped, scaled to pixels, scaled to [0, 65535], truncating.
DeviceImage(v, dim) ==
  IF dim > 0 THEN (((Clamp(v) * dim) \div 1000) * 65535) \div dim ELSE 0

\* The dispatch of the cycle has run the branch of action t with arguments.
Dispatched(t) ==
  /\ tool = t
  /\ t \in KnownTools(variant)
  /\ args.ok
  /\ "dispatch" \in Range(stages)

\* The gesture of the cycle has been sent and no injection failed.
GestureDone == opc \in {"settle", "loop"} /\ failure = "none"

\* The batch of a click at the point of args with the given button events.
ClickBatch(down_input, up_input) ==
  <<MouseInput(DeviceImage(args.x, conv.sw), DeviceImage(args.y, conv.sh), 0,
               {"MOUSEEVENTF_MOVE", "MOUSEEVENTF_ABSOLUTE"}),
    down_input, up_input>>

\* C26: click and right_click each make exactly one injection call whose
\* batch is an absolute move to the device image of the point, one button
\* down and one button up, with the primary button for click and the
\* secondary button for right_click; no other event is emitted.
C26_ClickBatches ==
  /\ Dispatched("click") =>
       /\ Len(calls) <= 1
       /\ IsPrefix(events, ClickBatch(LeftDown, LeftUp))
       /\ GestureDone => (calls = <<3>> /\ events = ClickBatch(LeftDown, LeftUp))
  /\ Dispatched("right_click") =>
       /\ Len(calls) <= 1
       /\ IsPrefix(events, ClickBatch(RightDown, RightUp))
       /\ GestureDone => (calls = <<3>> /\ events = ClickBatch(RightDown, RightUp))

\* A right click at (11, 500) on the 1536 x 864 display has been sent with
\* the secondary button.
C26_Witness ==
  /\ Dispatched("right_click")
  /\ GestureDone
  /\ conv = [sw |-> 1536, sh |-> 864]
  /\ args.x = 11 /\ args.y = 500
  /\ calls = <<3>>
  /\ events = <<MoveTo(<<682, 32767>>), RightDown, RightUp>>

\* The button events among the events injected so far.
Buttons == SelectSeq(events, LAMBDA e : ~IsMove(e))

\* C27: double_click emits exactly five events in two injection calls, the
\* batch absolute move, primary down, primary up and then the batch primary
\* down, primary up, with no move in between; down and up alternate,
\* starting with down.
C27_DoubleClick ==
  Dispatched("double_click") =>
    /\ IsPrefix(calls, <<3, 2>>)
    /\ IsPrefix(events, ClickBatch(LeftDown, LeftUp) \o <<LeftDown, LeftUp>>)
    /\ \A j \in 1..Len(Buttons) :
         Buttons[j] = IF j % 2 = 1 THEN LeftDown ELSE LeftUp
    /\ GestureDone =>
         /\ calls = <<3, 2>>
         /\ Len(events) = 5
         /\ Moves = <<events[1]>>

\* A double click at the centre of the 1000 x 800 display has been sent.
C27_Witness ==
  /\ Dispatched("double_click")
  /\ GestureDone
  /\ conv = [sw |-> 1000, sh |-> 800]
  /\ args.x = 500 /\ args.y = 500
  /\ calls = <<3, 2>>
  /\ events = <<MoveTo(<<32767, 32767>>), LeftDown, LeftUp, LeftDown, LeftUp>>

\* The device images of the two points of a drag.
DragFrom == <<DeviceImage(args.x1, conv.sw), DeviceImage(args.y1, conv.sh)>>
DragTo == <<DeviceImage(args.x2, conv.sw), DeviceImage(args.y2, conv.sh)>>

\* from + (to - from) * i / 10 on one axis, truncated to an integer.
Truncated(a1, a2, i) == (a1 * 10 + (a2 - a1) * i) \div 10

AbsoluteMove(e) == IsMove(e) /\ "MOUSEEVENTF_ABSOLUTE" \in e.dwFlags

\* What a completed drag emits apart from the targets of its interpolated
\* moves: 12 calls; an absolute move to from, a button down, 10 absolute
\* moves sent one by one, a button up; the 10th move targets the image of
\* to; the only button events are the down before the moves and the up
\* after them.
DragShape ==
  /\ calls = <<2>> \o [j \in 1..DragSteps |-> 1] \o <<1>>
  /\ Len(events) = DragSteps + 3
  /\ events[1] = MoveTo(DragFrom)
  /\ events[2] = LeftDown
  /\ \A i \in 1..DragSteps : AbsoluteMove(events[2 + i])
  /\ events[DragSteps + 2] = MoveTo(DragTo)
  /\ events[DragSteps + 3] = LeftUp

\* C28 as stated: the i-th interpolated move targets exactly
\* from + (to - from) * i / 10 truncated to an integer.
C28_Original ==
  (Dispatched("drag") /\ GestureDone) =>
    /\ DragShape
    /\ \A i \in 1..DragSteps :
         /\ events[2 + i].dx = Truncated(DragFrom[1], DragTo[1], i)
         /\ events[2 + i].dy = Truncated(DragFrom[2], DragTo[2], i)

\* A coordinate of the i-th interpolated move: the truncated value, or at
\* step 7 possibly one less.
NearTruncated(v, a1, a2, i) ==
  \/ v = Truncated(a1, a2, i)
  \/ i = 7 /\ a2 > a1 /\ v = Truncated(a1, a2, i) - 1

\* C28: a drag, when no injection fails, emits in order an absolute move to
\* from, a button down, exactly 10 absolute moves and a button up; the i-th
\* move targets from + (to - from) * i / 10 truncated to an integer, except
\* that the 7th may target one less on an axis along which the drag goes
\* up; the 10th move targets exactly the image of to, and every
\* interpolated move happens while the button is down.
C28_DragSequence ==
  (Dispatched("drag") /\ GestureDone) =>
    /\ DragShape
    /\ \A i \in 1..DragSteps :
         /\ NearTruncated(events[2 + i].dx, DragFrom[1], DragTo[1], i)
         /\ NearTruncated(events[2 + i].dy, DragFrom[2], DragTo[2], i)

\* A drag from the left edge to x = 11 on the 1000 x 800 display has been
\* sent: its device x goes from 0 to 720 and its 7th move targets 503,
\* where 720 * 7 / 10 is 504.
C28_Witness ==
  /\ Dispatched("drag")
  /\ GestureDone
  /\ conv = [sw |-> 1000, sh |-> 800]
  /\ args.x1 = 0 /\ args.x2 = 11 /\ args.y1 = 0 /\ args.y2 = 500
  /\ events[1] = MoveTo(<<0, 0>>)
  /\ events[2 + 7].dx = 503
  /\ events[2 + 6].dx = 432
  /\ events[DragSteps + 2] = MoveTo(<<720, 32767>>)

\* The UTF-16 code units of a text: a code point outside the basic plane
\* counts as its two surrogates, any other code point as itself.
RECURSIVE CodeUnits(_)
CodeUnits(text) ==
  IF text = <<>> THEN <<>>
  ELSE (IF Head(text) >= 65536
        THEN <<55296 + ((Head(text) - 65536) \div 1024),
               56320 + ((Head(text) - 65536) % 1024)>>
        ELSE <<Head(text)>>) \o CodeUnits(Tail(text))

\* The events of typing the code units us: for unit j a Unicode key-down,
\* then the key-up of the same unit.
KeyEvents(us) ==
  [j \in 1..(2 * Len(us)) |->
     KeybdInput(us[(j + 1) \div 2],
                IF j % 2 = 1 THEN {"KEYEVENTF_UNICODE"}
                ELSE {"KEYEVENTF_UNICODE", "KEYEVENTF_KEYUP"})]

\* The branch of the dispatched action has ended and no injection failed.
BranchEnded == opc \in {"settle", "loop", "backoff"} /\ failure # "injection"

\* C29: type_text of a non-empty text of n UTF-16 code units emits exactly
\* 2n keyboard events in one injection call, for each code unit in text
\* order a Unicode key-down immediately followed by the key-up of the same
\* unit; for an empty text it makes no injection call and emits no event.
C29_TypeText ==
  Dispatched("type") =>
    IF args.text = <<>>
    THEN calls = <<>> /\ events = <<>>
    ELSE BranchEnded =>
           /\ calls = <<2 * Len(CodeUnits(args.text))>>
           /\ events = KeyEvents(CodeUnits(args.text))

\* |n| / d rounded to the nearest integer, a tie to the even one.
Round(n, d) ==
  LET m == Abs(n)
      lo == m \div d
  IN IF 2 * (m % d) > d \/ (2 * (m % d) = d /\ lo % 2 = 1) THEN lo + 1 ELSE lo

\* C30: scroll(dy) emits exactly max(1, round(|dy| / 120)) wheel events,
\* each of one wheel unit (120) in the direction given by the sign of dy.
C30_ScrollTicks ==
  (Dispatched("scroll") /\ GestureDone) =>
    /\ Len(events) = Max(1, Round(args.dy, WHEEL_DELTA))
    /\ \A j \in 1..Len(events) :
         /\ events[j].type = "INPUT_MOUSE"
         /\ events[j].dwFlags = {"MOUSEEVENTF_WHEEL"}
         /\ args.dy > 0 => events[j].mouseData = WHEEL_DELTA
         /\ args.dy < 0 => events[j].mouseData = -WHEEL_DELTA

\* n wheel events of one unit each, in direction dir (1 or -1).
WheelEvents(n, dir) ==
  [j \in 1..n |-> MouseInput(0, 0, WHEEL_DELTA * dir, {"MOUSEEVENTF_WHEEL"})]

\* C31: scroll(0) emits exactly 1 wheel event, scroll(240) exactly 2 in the
\* positive direction, scroll(-360) exactly 3 in the negative direction.
C31_ScrollExamples ==
  (Dispatched("scroll") /\ GestureDone) =>
    /\ args.dy = 0 => (Len(events) = 1 /\ events[1].dwFlags = {"MOUSEEVENTF_WHEEL"})
    /\ args.dy = 240 => events = WheelEvents(2, 1)
    /\ args.dy = -360 => events = WheelEvents(3, -1)

\* scroll(-360) has been sent: three events down, in one call.
C31_Witness ==
  /\ Dispatched("scroll")
  /\ GestureDone
  /\ args.dy = -360
  /\ calls = <<3>>
  /\ Len(events) = 3
  /\ events[3].mouseData = -WHEEL_DELTA

\* The current cycle ended in an error raised by send_input.
InjectionFailed == failure = "injection"

\* A step in which send_input calls SendInput.
InjectionCall == Len(calls') = Len(calls) + 1

\* The number of events the call of this step accepted.
Accepted == Len(events') - Len(events)

\* C32: whenever an injection call accepts a number of events different
\* from the number requested, the error is raised at that call, no further
\* event of the gesture is emitted after it, and the orchestrator catches
\* the error and goes on: the loop is not left, the backoff and the next
\* cycle can start.
C32_InjectionFailureIsolated ==
  /\ [][(InjectionCall /\ Accepted # Len(Head(batches))) =>
          (failure' = "injection" /\ batches' = <<>> /\ opc' = "backoff")]_vars
  /\ [][(InjectionFailed /\ failure' = "injection") =>
          (events' = events /\ calls' = calls)]_vars
  /\ [](InjectionFailed =>
          /\ batches = <<>>
          /\ exitReason = "none"
          /\ opc \in {"backoff", "loop"}
          /\ opc = "backoff" => ENABLED Backoff
          /\ (opc = "loop" /\ step < MaxCycles) => ENABLED CycleStart)

\* The second call of a double click accepted one of its two events: the
\* cycle ended there, after the backoff the loop is at its top again.
C32_Witness ==
  /\ InjectionFailed
  /\ tool = "double_click"
  /\ calls = <<3, 2>>
  /\ Len(events) = 4
  /\ step = 1
  /\ opc = "loop"

\* How many of the events injected in the cycle equal e.
Count(e) == Len(SelectSeq(events, LAMBDA v : v = e))

\* C33: at the end of every cycle, a cycle in which an injection call failed
\* part-way through a gesture included, every button-down event that was
\* emitted has been followed by its button-up event: no button is held
\* down when the orchestrator goes on to the next cycle.
C33_NoButtonHeld ==
  (opc = "loop" /\ step > 0) =>
    /\ Count(LeftDown) = Count(LeftUp)
    /\ Count(RightDown) = Count(RightUp)


\* A drag's fourth interpolated move was refused whole (SendInput returned
\* 0): the cycle is over and the primary button is still down.
C33_DragHolds ==
  /\ opc = "loop"
  /\ tool = "drag"
  /\ InjectionFailed
  /\ calls = <<2, 1, 1, 1, 1>>
  /\ Len(events) = 5
  /\ Count(LeftDown) = 1
  /\ Count(LeftUp) = 0

\* An update of some cycle has been applied to the window.
UpdateApplied == applied # <<>>

\* The orchestrator is between taking a new narrative and the return of
\* the update that shows it.
Updating == opc \in {"update", "update_wait"}

\* C34: in every interleaving of the overlay's startup with the cycles, the
\* startup wait timing out included, once an update has been applied to an
\* existing window the text it displays is the authoritative narrative
\* until the next update: the window thread's initialisation is over by
\* then and never overwrites the text, and only a further update changes
\* it.
C34_UpdateNotOverwritten ==
  /\ [](UpdateApplied =>
          /\ wpc \in {"loop_test", "getmsg", "terminated"}
          /\ hwnd # "NULL"
          /\ (winState = "live" /\ ~Updating) => winText = current_story)
  /\ [][(UpdateApplied /\ winText' # winText) =>
          (sent # <<>> /\ winText' = sent[1].text /\ Updating)]_vars

\* The startup wait timed out, the first cycle's update was issued before
\* the window thread had set the initial story, and the window shows the
\* cycle's narrative at the end of the cycle.
C34_Witness ==
  /\ UpdateApplied
  /\ ~applied[1].issuedReady
  /\ step = 1
  /\ opc = "loop"
  /\ winState = "live"
  /\ current_story \in Stories
  /\ winText = current_story

\* The response of the current cycle named the action done and has been
\* read by the reduced variant.
DoneReturned == variant = "main" /\ tool = "done" /\ "read" \in Range(stages)

\* C35: in the reduced variant, when the returned action is done the loop
\* ends in that cycle, the narrative is not replaced, no overlay update is
\* issued and no input is synthesized, and the overlay's shutdown then runs
\* once: the destroy request (when a handle exists), the stop signal, the
\* bounded join; no other action name ends the loop.
C35_DoneEndsLoop ==
  /\ DoneReturned =>
       /\ exitReason = "done"
       /\ opc \in {"exit_post", "exit_stop", "exit_join", "exited"}
       /\ current_story = storyAtStart
       /\ stages = <<"capture", "downsample", "encode", "dump", "infer", "read">>
       /\ sent = <<>>
       /\ events = <<>> /\ batches = <<>> /\ calls = <<>>
       /\ readyAtStart => winText = textAtStart
       /\ opc = "exit_post" => ENABLED ExitPost
       /\ opc = "exit_stop" => ENABLED ExitStop
       /\ opc = "exit_join" => ENABLED ExitJoin
       /\ opc = "exited" => shutdownLog \in {<<"post", "stop", "join">>, <<"stop", "join">>}
  /\ exitReason = "done" => DoneReturned
  /\ (exitReason = "none" /\ ~DoneReturned) => shutdownLog = <<>>

\* The second cycle's response named done and carried a new narrative: the
\* loop has ended, the narrative and the overlay still hold the first
\* cycle's narrative, and shutdown has run its three steps.
C35_Witness ==
  /\ DoneReturned
  /\ step = 2
  /\ args.story = "s2"
  /\ storyAtStart = "s1"
  /\ current_story = "s1"
  /\ winText = "s1"
  /\ opc = "exited"
  /\ shutdownLog = <<"post", "stop", "join">>

==========================================================================
